---- MODULE Spec2Model ----
(***************************************************************************)
(* SprintSense core: the per-sprint KPI functions of app/lib/kpis.py and   *)
(* the Monte-Carlo velocity forecast of app/lib/forecast.py.               *)
(*                                                                         *)
(* A DataFrame is a sequence of rows (records); a result table is a        *)
(* sequence of result rows in the order the code returns them.  A missing  *)
(* timestamp (NaT) or number (NaN) is the value -1, a missing string is    *)
(* "NA"; timestamps are small naturals.  A float quotient is kept as the   *)
(* exact fraction [num, den].                                              *)
(***************************************************************************)
EXTENDS Integers, Sequences, FiniteSets, TLC

VARIABLES
    df,         \* the dataset handed to a KPI function
    op,         \* the KPI function applied, "none" before
    out,        \* the table it returned
    series,     \* the velocity Series handed to mc_velocity_forecast
    horizon,    \* its horizon argument
    draws,      \* its draws argument
    patched,    \* np.random.choice is replaced by a sampler of a fixed row
    fc,         \* what the latest call of mc_velocity_forecast gave
    prev,       \* what the call before it gave
    capacity_mult,  \* what-if capacity multiplier, in hundredths
    scope_growth,   \* what-if scope growth per sprint, in percent
    defect_uplift,  \* what-if defect rework uplift, in percent
    fc_adj,     \* the adjusted forecast of the Trends page
    raw,        \* the table handed to validate_and_normalize
    validate_rows,  \* its validate_rows argument
    norm,       \* what validate_and_normalize gave
    session_state   \* st.session_state, the keys the pages keep in it

kpiVars == <<df, op, out>>
forecastVars == <<series, horizon, draws, patched, fc, prev>>
scenarioVars == <<capacity_mult, scope_growth, defect_uplift, fc_adj>>
schemaVars == <<raw, validate_rows, norm>>
pageVars == <<session_state>>

vars == <<kpiVars, forecastVars, scenarioVars, schemaVars, pageVars>>

(***************************************************************************)
(* Bounds of the model.                                                    *)
(***************************************************************************)
MaxRows == 2
MaxHist == 2
MaxHorizon == 3
MaxDraws == 2

(***************************************************************************)
(* Missing values as pandas holds them.                                    *)
(***************************************************************************)
NaT == -1
NaN == -1
NA == "NA"
NoType == <<"NA">>

\* Series.notna() on a timestamp or number column, and on a string column
notna(x) == x # NaT
notnas(x) == x # NA

\* pandas comparisons: a comparison with a missing value is False
Ge(a, b) == a # NaT /\ b # NaT /\ a >= b
Le(a, b) == a # NaT /\ b # NaT /\ a <= b
Gt(a, b) == a # NaT /\ b # NaT /\ a > b

(***************************************************************************)
(* Values the rows are drawn from.                                         *)
(***************************************************************************)
\* sprint ids in lexical order, the order sorted() and sort_values() give
SprintIds == <<"S1", "S2", "S3">>

\* the sprints of the datasets of two sprints
SprintIdSet == {SprintIds[i] : i \in 1..2}

TypeStory == <<"s", "t", "o", "r", "y">>
TypeBug == <<"b", "u", "g">>
TypeBugCap == <<"B", "u", "g">>
TypeDefect == <<"d", "e", "f", "e", "c", "t">>
TypeProdBug == <<"p", "r", "o", "d", " ", "b", "u", "g">>

Issues(ids, types, points, resolveds, sprints, starts, ends) ==
    [issue_id : ids, issue_type : types, story_points : points,
     resolved : resolveds, sprint_id : sprints,
     sprint_start : starts, sprint_end : ends]

\* rows that vary in sprint, window, resolution and points
WindowRows ==
    Issues({"I1"}, {TypeStory}, {NaN, 2}, {NaT, 0, 1, 2, 3},
           SprintIdSet \cup {NA}, {NaT, 1}, {NaT, 2})

\* rows that vary in issue type, sprint and resolution, in a fixed window
TypeRows ==
    Issues({"I1"}, {TypeStory, TypeBug, TypeBugCap, TypeDefect, TypeProdBug, NoType},
           {NaN}, {NaT, 1, 3}, SprintIdSet, {1}, {2})

(***************************************************************************)
(* app/lib/kpis.py                                                         *)
(***************************************************************************)
RECURSIVE SumPoints(_)
SumPoints(d) ==
    IF d = <<>> THEN 0 ELSE Head(d).story_points + SumPoints(Tail(d))

\* Series.count(): the number of non-missing values
CountIds(d) == Len(SelectSeq(d, LAMBDA r : notnas(r.issue_id)))

Group(d, s) == SelectSeq(d, LAMBDA r : r.sprint_id = s)

\* groupby("sprint_id") keys, ascending; rows with a missing key are dropped
GroupKeys(d) ==
    SelectSeq(SprintIds, LAMBDA s : \E i \in DOMAIN d : d[i].sprint_id = s)

\* mutant: an issue resolved one tick after sprint_end still counts
resolved_within_sprint_grace(d) ==
    SelectSeq(d, LAMBDA r :
        /\ notnas(r.sprint_id)
        /\ notna(r.sprint_start)
        /\ notna(r.sprint_end)
        /\ notna(r.resolved)
        /\ Ge(r.resolved, r.sprint_start)
        /\ Le(r.resolved, r.sprint_end + 1))

resolved_within_sprint(d) ==
    SelectSeq(d, LAMBDA r :
        /\ notnas(r.sprint_id)
        /\ notna(r.sprint_start)
        /\ notna(r.sprint_end)
        /\ notna(r.resolved)
        /\ Ge(r.resolved, r.sprint_start)
        /\ Le(r.resolved, r.sprint_end))

\* mutant: missing story points filled with 0 instead of dropped
calc_velocity_fillna(d0) ==
    LET d == resolved_within_sprint(d0)
        keys == GroupKeys(d)
    IN  [k \in 1..Len(keys) |->
            [sprint_id |-> keys[k],
             velocity_sp |-> SumPoints(SelectSeq(Group(d, keys[k]),
                                 LAMBDA r : notna(r.story_points)))]]

calc_velocity(d0) ==
    LET d1 == resolved_within_sprint(d0)
        d == SelectSeq(d1, LAMBDA r : notna(r.story_points))
        keys == GroupKeys(d)
    IN  [k \in 1..Len(keys) |->
            [sprint_id |-> keys[k], velocity_sp |-> SumPoints(Group(d, keys[k]))]]

\* mutant: only the rows that carry story points are counted
calc_throughput_pointed(d0) ==
    LET d == SelectSeq(resolved_within_sprint(d0), LAMBDA r : notna(r.story_points))
        keys == GroupKeys(d)
    IN  [k \in 1..Len(keys) |->
            [sprint_id |-> keys[k], throughput_issues |-> CountIds(Group(d, keys[k]))]]

calc_throughput(d0) ==
    LET d == resolved_within_sprint(d0)
        keys == GroupKeys(d)
    IN  [k \in 1..Len(keys) |->
            [sprint_id |-> keys[k], throughput_issues |-> CountIds(Group(d, keys[k]))]]

\* mutant: an issue resolved exactly at sprint_end counts as unfinished
unfinished_at_end_inclusive(d0) ==
    LET d == SelectSeq(d0, LAMBDA r : notnas(r.sprint_id) /\ notna(r.sprint_end))
    IN  SelectSeq(d, LAMBDA r : ~notna(r.resolved) \/ Ge(r.resolved, r.sprint_end))

unfinished_at_end(d0) ==
    LET d == SelectSeq(d0, LAMBDA r : notnas(r.sprint_id) /\ notna(r.sprint_end))
    IN  SelectSeq(d, LAMBDA r : ~notna(r.resolved) \/ Gt(r.resolved, r.sprint_end))

\* r["unfinished"] / r["total"] if r["total"] else 0.0
Ratio(n, total) ==
    IF total # 0 THEN [num |-> n, den |-> total] ELSE [num |-> 0, den |-> 1]

\* mutant: the roster is taken from the unfinished issues only
calc_carryover_rate_unfinished_roster(d0) ==
    LET assigned == SelectSeq(d0, LAMBDA r : notnas(r.sprint_id))
        unfinished == unfinished_at_end(d0)
        roster == GroupKeys(unfinished)
    IN  [k \in 1..Len(roster) |->
            [sprint_id |-> roster[k],
             carryover_rate |-> Ratio(CountIds(Group(unfinished, roster[k])),
                                      CountIds(Group(assigned, roster[k])))]]

calc_carryover_rate(d0) ==
    LET assigned == SelectSeq(d0, LAMBDA r : notnas(r.sprint_id))
        unfinished == unfinished_at_end(d0)
        roster == GroupKeys(assigned)
    IN  [k \in 1..Len(roster) |->
            [sprint_id |-> roster[k],
             carryover_rate |-> Ratio(CountIds(Group(unfinished, roster[k])),
                                      CountIds(Group(assigned, roster[k])))]]

\* Series.str.lower(), on the letters the issue types use
LowerChar(c) ==
    CASE c = "B" -> "b"
      [] c = "U" -> "u"
      [] c = "G" -> "g"
      [] OTHER -> c

lower(t) == [i \in DOMAIN t |-> LowerChar(t[i])]

\* d["issue_type"].str.lower() == "bug"; a missing type compares False
IsBug(t) == t # NoType /\ lower(t) = TypeBug

\* mutant: every qualifying row of the sprint is taken for a bug
calc_defect_ratio_all_bugs(d0) ==
    LET d == resolved_within_sprint(d0)
        roster == GroupKeys(d)
    IN  [k \in 1..Len(roster) |->
            [sprint_id |-> roster[k],
             defect_ratio |-> Ratio(CountIds(Group(d, roster[k])),
                                    CountIds(Group(d, roster[k])))]]

\* mutant: the roster is every sprint that has a row assigned
calc_defect_ratio_full_roster(d0) ==
    LET d == resolved_within_sprint(d0)
        bugs == SelectSeq(d, LAMBDA r : IsBug(r.issue_type))
        roster == GroupKeys(SelectSeq(d0, LAMBDA r : notnas(r.sprint_id)))
    IN  [k \in 1..Len(roster) |->
            [sprint_id |-> roster[k],
             defect_ratio |-> Ratio(CountIds(Group(bugs, roster[k])),
                                    CountIds(Group(d, roster[k])))]]

calc_defect_ratio(d0) ==
    LET d == resolved_within_sprint(d0)
        bugs == SelectSeq(d, LAMBDA r : IsBug(r.issue_type))
        roster == GroupKeys(d)
    IN  [k \in 1..Len(roster) |->
            [sprint_id |-> roster[k],
             defect_ratio |-> Ratio(CountIds(Group(bugs, roster[k])),
                                    CountIds(Group(d, roster[k])))]]

(***************************************************************************)
(* app/lib/forecast.py                                                     *)
(***************************************************************************)
Q(n, d) == [num |-> n, den |-> d]

\* a float NaN, as a fraction
NaNQ == Q(0, 0)

NoCall == [status |-> "none", table |-> <<>>]
Returned(t) == [status |-> "ok", table |-> t]
Raised(e) == [status |-> e, table |-> <<>>]

Range(f) == {f[i] : i \in DOMAIN f}

\* Series.dropna().astype(float).to_numpy()
hist_of(s) == SelectSeq(s, LAMBDA v : notna(v))

RECURSIVE SumSeq(_)
SumSeq(c) == IF c = <<>> THEN 0 ELSE Head(c) + SumSeq(Tail(c))

\* ndarray.mean(axis=0) of one column
mean(c) == Q(SumSeq(c), Len(c))

\* the k-th smallest value of a column, k in 1..Len(c)
KthSmallest(c, k) ==
    CHOOSE v \in Range(c) :
        /\ Cardinality({i \in DOMAIN c : c[i] < v}) < k
        /\ k <= Cardinality({i \in DOMAIN c : c[i] <= v})

\* np.percentile(column, q), linear interpolation between the two order
\* statistics around position (n - 1) * q / 100
percentile(c, q) ==
    LET n == Len(c)
        pos == (n - 1) * q
        lo == pos \div 100
        hi == IF lo + 1 <= n - 1 THEN lo + 1 ELSE n - 1
        below == KthSmallest(c, lo + 1)
        above == KthSmallest(c, hi + 1)
    IN  Q(100 * below + (pos % 100) * (above - below), 100)

Column(m, k) == [i \in DOMAIN m |-> m[i][k]]

\* the table built from a (draws x horizon) matrix of samples
Summary(m, h) ==
    [k \in 1..h |->
        [step |-> k,
         mean |-> mean(Column(m, k)),
         p10 |-> percentile(Column(m, k), 10),
         p50 |-> percentile(Column(m, k), 50),
         p90 |-> percentile(Column(m, k), 90)]]

\* empty history: a row of zeros for every step
ZeroTable(h) ==
    [k \in 1..h |->
        [step |-> k, mean |-> Q(0, 1), p10 |-> Q(0, 1), p50 |-> Q(0, 1), p90 |-> Q(0, 1)]]

\* statistics of a matrix without rows: NaN in every cell
NaNTable(h) ==
    [k \in 1..h |->
        [step |-> k, mean |-> NaNQ, p10 |-> NaNQ, p50 |-> NaNQ, p90 |-> NaNQ]]

\* mutant: missing velocities are sampled as 0 instead of being dropped
Samples_with_zero(hist, h, n) == [1..n -> [1..h -> Range(hist) \cup {0}]]

\* rng.choice(hist, size=(n, h), replace=True): every matrix over the history
Samples(hist, h, n) == [1..n -> [1..h -> Range(hist)]]

\* every outcome a call can have.  The sampler is a fresh default_rng(), so any
\* matrix over the history may be drawn.  A negative size makes rng.choice
\* raise ValueError; with no draws the mean is NaN and np.percentile either
\* gives NaN or raises IndexError, depending on the numpy build.
mc_velocity_forecast(s, h, n) ==
    LET hist == hist_of(s)
    IN  IF Len(hist) = 0 THEN {Returned(ZeroTable(h))}
        ELSE IF h < 0 \/ n < 0 THEN {Raised("ValueError")}
        ELSE IF n = 0 THEN {Returned(NaNTable(h)), Raised("IndexError")}
        ELSE {Returned(Summary(m, h)) : m \in Samples(hist, h, n)}

(***************************************************************************)
(* app/pages/02_Trends.py: the what-if adjustment of the base forecast     *)
(***************************************************************************)
\* n / d rounded to the nearest integer, ties to even (Series.round)
RoundDiv(n, d) ==
    LET q == n \div d
        r == n % d
    IN  IF 2 * r < d THEN q
        ELSE IF 2 * r > d THEN q + 1
        ELSE IF q % 2 = 0 THEN q ELSE q + 1

\* mutant: the defect uplift is left out of the effective multiplier
Scale_no_uplift(v, cap, sg, du) ==
    Q(RoundDiv(v.num * cap * 100, v.den * (100 + sg)), 100)

\* (value * eff_mult).round(2), with
\* eff_mult = capacity_mult / (1 + scope_growth / 100) / (1 + defect_uplift / 100);
\* cap is capacity_mult in hundredths, the result is a number of hundredths
Scale(v, cap, sg, du) ==
    Q(RoundDiv(v.num * cap * 10000, v.den * (100 + sg) * (100 + du)), 100)

adjust(t, cap, sg, du) ==
    [k \in DOMAIN t |->
        [step |-> t[k].step,
         mean |-> Scale(t[k].mean, cap, sg, du),
         p10 |-> Scale(t[k].p10, cap, sg, du),
         p50 |-> Scale(t[k].p50, cap, sg, du),
         p90 |-> Scale(t[k].p90, cap, sg, du)]]

\* no what-if scenario has been applied
NoScenario ==
    /\ capacity_mult = 100
    /\ scope_growth = 0
    /\ defect_uplift = 0
    /\ fc_adj = NoCall

(***************************************************************************)
(* app/lib/kpis.py: calc_cycle_time                                        *)
(*                                                                         *)
(* Timestamps count ticks of half a day.                                   *)
(***************************************************************************)
TicksPerDay == 2
SecondsPerDay == 86400
SecondsPerTick == SecondsPerDay \div TicksPerDay

\* _parse_dates: a copy whose date columns went through pd.to_datetime,
\* which leaves the timestamps and missing values of the datasets as they are
parse_dates(d) == d

HasColumn(d, c) == d # <<>> /\ c \in DOMAIN d[1]

\* Series.median(): the middle value, or the mean of the two middle values
median(c) == percentile(c, 50)

\* (d["resolved"] - d[base]).dt.total_seconds() of the rows of d
TotalSeconds(d, base) ==
    [i \in DOMAIN d |-> (d[i].resolved - d[i][base]) * SecondsPerTick]

RECURSIVE Gcd(_, _)
Gcd(a, b) == IF b = 0 THEN a ELSE Gcd(b, a % b)

\* the same fraction in lowest terms, its denominator positive
Reduced(q) ==
    LET g == Gcd(IF q.num < 0 THEN 0 - q.num ELSE q.num, q.den)
    IN  Q(q.num \div g, q.den \div g)

\* the median of total_seconds / 86400.0
MedianDays(secs) ==
    LET m == median(secs) IN Reduced(Q(m.num, m.den * SecondsPerDay))

\* mutant: a row without in_progress_start falls back to its created
calc_cycle_time_row_fallback(d0) ==
    LET w == resolved_within_sprint(parse_dates(d0))
        base == IF HasColumn(w, "in_progress_start")
                THEN "in_progress_start" ELSE "created"
        d == [i \in DOMAIN w |->
                 IF notna(w[i][base]) THEN w[i]
                 ELSE [w[i] EXCEPT ![base] = w[i].created]]
        kept == SelectSeq(d, LAMBDA r : notna(r[base]) /\ notna(r.resolved))
        keys == GroupKeys(kept)
    IN  [k \in 1..Len(keys) |->
            [sprint_id |-> keys[k],
             cycle_median_days |->
                 MedianDays(TotalSeconds(Group(kept, keys[k]), base))]]

calc_cycle_time(d0) ==
    LET d == resolved_within_sprint(parse_dates(d0))
        base == IF HasColumn(d, "in_progress_start")
                THEN "in_progress_start" ELSE "created"
        kept == SelectSeq(d, LAMBDA r : notna(r[base]) /\ notna(r.resolved))
        keys == GroupKeys(kept)
    IN  [k \in 1..Len(keys) |->
            [sprint_id |-> keys[k],
             cycle_median_days |->
                 MedianDays(TotalSeconds(Group(kept, keys[k]), base))]]

(***************************************************************************)
(* app/lib/ui_kpis.py                                                      *)
(***************************************************************************)
\* the earliest sprint_start of sprint s, NaT when none of its rows has one
MinStart(d, s) ==
    LET starts == {d[i].sprint_start : i \in {j \in DOMAIN d :
                      d[j].sprint_id = s /\ notna(d[j].sprint_start)}}
    IN  IF starts = {} THEN NaT
        ELSE CHOOSE t \in starts : \A u \in starts : t <= u

SprintIndex(s) == CHOOSE i \in DOMAIN SprintIds : SprintIds[i] = s

\* sort_values() on the per-sprint minimum: ascending, a missing minimum
\* last, the lexical order of the group keys kept among equals
SortsBefore(d, a, b) ==
    LET ma == MinStart(d, a)
        mb == MinStart(d, b)
    IN  IF ma = NaT THEN mb = NaT /\ SprintIndex(a) < SprintIndex(b)
        ELSE \/ mb = NaT
             \/ ma < mb
             \/ ma = mb /\ SprintIndex(a) < SprintIndex(b)

\* mutant: the sprints in the lexical order of their ids
sprint_order_lexical(d) == GroupKeys(d)

sprint_order(d) ==
    LET keys == Range(GroupKeys(d))
    IN  [k \in 1..Cardinality(keys) |->
            CHOOSE s \in keys :
                Cardinality({t \in keys : SortsBefore(d, t, s)}) = k - 1]

\* round(x, 2) and round(x, 1) of a fraction, as hundredths and as tenths
Round2(x) == Q(RoundDiv(100 * x.num, x.den), 100)

\* (latest - prev) / prev * 100.0, rounded to one decimal
PercentChange(latest, before) ==
    LET n == 1000 * (latest.num * before.den - before.num * latest.den)
        d == latest.den * before.num
    IN  Q(IF d > 0 THEN RoundDiv(n, d) ELSE RoundDiv(0 - n, 0 - d), 10)

\* astype(float) of a value of a metric column
astype_float(v, whole) == IF whole THEN Q(v, 1) ELSE v

\* the metric table m sorted by the position of its sprint in order, its
\* column col as floats (whole: the column holds integers); latest is the
\* last value, prev the one before
latest_and_delta(m, col, order, whole) ==
    LET present == SelectSeq(order, LAMBDA s : \E i \in DOMAIN m : m[i].sprint_id = s)
        vals == [k \in DOMAIN present |->
                    astype_float(
                        m[CHOOSE i \in DOMAIN m : m[i].sprint_id = present[k]][col],
                        whole)]
        n == Len(vals)
    IN  IF n = 0 THEN [value |-> Q(0, 100), delta |-> Q(0, 10)]
        ELSE [value |-> Round2(vals[n]),
              delta |-> IF n = 1 \/ vals[n - 1].num = 0 THEN Q(0, 10)
                        ELSE PercentChange(vals[n], vals[n - 1])]

compute_summary(d) ==
    LET order == sprint_order(d)
    IN  [velocity_sp |->
             latest_and_delta(calc_velocity(d), "velocity_sp", order, TRUE),
         throughput_issues |->
             latest_and_delta(calc_throughput(d), "throughput_issues", order, TRUE),
         carryover_rate |->
             latest_and_delta(calc_carryover_rate(d), "carryover_rate", order, FALSE),
         cycle_median_days |->
             latest_and_delta(calc_cycle_time(d), "cycle_median_days", order, FALSE),
         defect_ratio |->
             latest_and_delta(calc_defect_ratio(d), "defect_ratio", order, FALSE)]

(***************************************************************************)
(* app/pages: the per-sprint KPI table merged from the five metric tables  *)
(***************************************************************************)
HasSprint(t, s) == \E k \in DOMAIN t : t[k].sprint_id = s

RowOf(t, s) == t[CHOOSE k \in DOMAIN t : t[k].sprint_id = s]

\* the cell a left merge gives a sprint the right table has no row for:
\* NaN, which turns an integer column into a float column
Missing(col) == IF col \in {"velocity_sp", "throughput_issues"} THEN NaN ELSE NaNQ

\* DataFrame.merge(right, on="sprint_id", how=how) of a left table and a
\* right table with one row per sprint: the rows of the left table in their
\* order, each with the column col of the right table
merge(left, right, col, how) ==
    LET kept == IF how = "inner"
                THEN SelectSeq(left, LAMBDA r : HasSprint(right, r.sprint_id))
                ELSE left
    IN  [k \in DOMAIN kept |->
            kept[k] @@ (col :> IF HasSprint(right, kept[k].sprint_id)
                               THEN RowOf(right, kept[k].sprint_id)[col]
                               ELSE Missing(col))]

\* vel.merge(thr).merge(car).merge(cyc).merge(dr), every merge of kind how
merge_all(m, how) ==
    merge(merge(merge(merge(m.vel, m.thr, "throughput_issues", how),
                      m.car, "carryover_rate", how),
                m.cyc, "cycle_median_days", how),
          m.dr, "defect_ratio", how)

\* _sprint_sort_key: the number the digits of the sprint id spell
sprint_sort_key(x) ==
    CASE x = "S1" -> 1
      [] x = "S2" -> 2
      [] x = "S3" -> 3
      [] OTHER -> 0

\* sort_values("sprint_id", key=...): ascending by key, stable among equals
sort_by_key(t) ==
    [k \in DOMAIN t |->
        t[CHOOSE i \in DOMAIN t :
            Cardinality({j \in DOMAIN t :
                \/ sprint_sort_key(t[j].sprint_id) < sprint_sort_key(t[i].sprint_id)
                \/ /\ sprint_sort_key(t[j].sprint_id) = sprint_sort_key(t[i].sprint_id)
                   /\ j < i}) = k - 1]]

Pages == {"01_Overview", "02_Trends", "04_Team_Insights"}

\* the five metric tables of a dataset and the KPI table a page merges
build_kpi_table(d, page) ==
    LET m == [vel |-> calc_velocity(d),
              thr |-> calc_throughput(d),
              car |-> calc_carryover_rate(d),
              cyc |-> calc_cycle_time(d),
              dr |-> calc_defect_ratio(d)]
    IN  m @@ [kpi |-> IF page = "04_Team_Insights"
                      THEN sort_by_key(merge_all(m, "left"))
                      ELSE merge_all(m, "inner")]

(***************************************************************************)
(* app/lib/insights.py                                                     *)
(*                                                                         *)
(* Floats are exact fractions; a comparison of a quotient with a threshold *)
(* is the comparison of the cross products.                                *)
(***************************************************************************)
IsNaNQ(q) == q.den = 0

QSub(a, b) == Reduced(Q(a.num * b.den - b.num * a.den, a.den * b.den))

QAdd(a, b) == Reduced(Q(a.num * b.den + b.num * a.den, a.den * b.den))

RECURSIVE QSum(_)
QSum(c) == IF c = <<>> THEN Q(0, 1) ELSE QAdd(Head(c), QSum(Tail(c)))

\* a < n / d, for a fraction a with a positive denominator and d > 0
QLess(a, n, d) == a.num * d < n * a.den

LimitedHistory ==
    <<"warning", "Limited history. Add more sprints for a better forecast.">>
TrendFlat == <<"info", "Velocity trend is flat/stable.">>
TrendUp == <<"success", "Velocity is trending upward.">>
TrendDown == <<"warning", "Velocity is trending downward.">>
VeryStable == <<"success", "Past velocity is very stable (low variability).">>
ModerateVariability == <<"info", "Past velocity variability is moderate.">>
Volatile == <<"warning", "Past velocity is volatile; expect wider forecast bands.">>
UncertaintyLow == <<"success", "Forecast uncertainty is low.">>
UncertaintyModerate == <<"info", "Forecast uncertainty is moderate.">>
UncertaintyHigh == <<"warning", "Forecast uncertainty is high.">>

\* hist.diff().dropna().mean() of a history of at least two values
slope_of(hist) ==
    LET diffs == [i \in 1..(Len(hist) - 1) |-> hist[i + 1] - hist[i]]
    IN  mean(diffs)

trend_message(hist) ==
    LET slope == slope_of(hist)
        magnitude == Q(IF slope.num < 0 THEN 0 - slope.num ELSE slope.num, slope.den)
    IN  IF QLess(magnitude, 2, 10) THEN TrendFlat
        ELSE IF slope.num > 0 THEN TrendUp
        ELSE TrendDown

\* the sum of (x - mean)^2 over the history, times n^2
SquaredDeviations(hist) ==
    LET n == Len(hist)
        total == SumSeq(hist)
    IN  SumSeq([i \in DOMAIN hist |-> (n * hist[i] - total) * (n * hist[i] - total)])

\* cv < tn / td, where cv = std / mean with std = hist.std(ddof=1), and
\* cv = inf when the mean is 0: for a positive mean the squares compare as
\* the quotients do, and for a negative mean cv is below every threshold
cv_below(hist, tn, td) ==
    LET n == Len(hist)
        total == SumSeq(hist)
    IN  IF total = 0 THEN FALSE
        ELSE IF total < 0 THEN TRUE
        ELSE SquaredDeviations(hist) * td * td < tn * tn * total * total * (n - 1)

\* mutant: a history of mean 0 is taken for very stable
variability_message_zero_mean(hist) ==
    IF SumSeq(hist) = 0 \/ cv_below(hist, 10, 100) THEN VeryStable
    ELSE IF cv_below(hist, 25, 100) THEN ModerateVariability
    ELSE Volatile

variability_message(hist) ==
    IF cv_below(hist, 10, 100) THEN VeryStable
    ELSE IF cv_below(hist, 25, 100) THEN ModerateVariability
    ELSE Volatile

\* band = _safe_num(fc["p90"]) - _safe_num(fc["p10"]): a value for every
\* row where either is a number, NaN unless both are; band.mean() skips NaN
\* and is NaN, which is below no threshold, when nothing is left
band_messages(t) ==
    IF ~(HasColumn(t, "p90") /\ HasColumn(t, "p10")) THEN <<>>
    ELSE LET band == SelectSeq(t, LAMBDA r : ~IsNaNQ(r.p90) \/ ~IsNaNQ(r.p10))
             both == SelectSeq(t, LAMBDA r : ~IsNaNQ(r.p90) /\ ~IsNaNQ(r.p10))
             spread == [k \in DOMAIN both |-> QSub(both[k].p90, both[k].p10)]
             total == QSum(spread)
             avg_spread == IF both = <<>> THEN NaNQ
                           ELSE Q(total.num, total.den * Len(both))
         IN  IF Len(band) = 0 THEN <<>>
             ELSE IF IsNaNQ(avg_spread) THEN <<UncertaintyHigh>>
             ELSE IF QLess(avg_spread, 3, 1) THEN <<UncertaintyLow>>
             ELSE IF QLess(avg_spread, 6, 1) THEN <<UncertaintyModerate>>
             ELSE <<UncertaintyHigh>>

\* mutant: the warning about the short history does not end the commentary
velocity_insights_no_stop(d, t) ==
    LET vel == calc_velocity(d)
        hist == [k \in DOMAIN vel |-> vel[k].velocity_sp]
    IN  IF Len(hist) < 3 THEN <<LimitedHistory>> \o band_messages(t)
        ELSE <<trend_message(hist), variability_message(hist)>> \o band_messages(t)

\* the velocities of calc_velocity are sums of numbers and never missing,
\* so _safe_num keeps them all
velocity_insights(d, t) ==
    LET vel == calc_velocity(d)
        hist == [k \in DOMAIN vel |-> vel[k].velocity_sp]
    IN  IF Len(hist) < 3 THEN <<LimitedHistory>>
        ELSE <<trend_message(hist), variability_message(hist)>> \o band_messages(t)

(***************************************************************************)
(* app/lib/schema.py                                                       *)
(*                                                                         *)
(* A table handed to validate_and_normalize is [columns, rows]: the set of *)
(* its column names and its rows, each a function from the columns to      *)
(* cells.  A cell carries the kind of Python object it holds: a str (its   *)
(* characters), a number, a timestamp, or one of the missing values None,  *)
(* NaN, NaT and pandas NA.                                                 *)
(***************************************************************************)
CSV_HEADERS ==
    <<"issue_id", "issue_type", "status", "story_points", "assignee",
      "reporter", "created", "updated", "resolved", "sprint_id",
      "sprint_name", "sprint_start", "sprint_end", "parent_id", "labels",
      "priority">>

REQUIRED_COLS ==
    {"issue_id", "issue_type", "status", "story_points", "created",
     "sprint_id", "sprint_start", "sprint_end"}

DATE_COLS == {"created", "updated", "resolved", "sprint_start", "sprint_end"}
NUM_COLS == {"story_points"}
OPTIONAL_STR_COLS ==
    {"assignee", "reporter", "sprint_name", "parent_id", "labels", "priority"}
OPTIONAL_NUM_COLS == {"story_points"}

\* mutant: the null check leaves out status
IdentifierCols_no_status == <<"issue_id", "sprint_id">>

\* the identifier columns, in the order the null check visits them
IdentifierCols == <<"issue_id", "sprint_id", "status">>

Headers == Range(CSV_HEADERS)

Digits == <<"0", "1", "2", "3", "4", "5", "6", "7", "8", "9">>

DigitSet == Range(Digits)

IsDigits(s) == Len(s) > 0 /\ \A i \in DOMAIN s : s[i] \in DigitSet

DigitValue(ch) == (CHOOSE i \in DOMAIN Digits : Digits[i] = ch) - 1

RECURSIVE ParseDigits(_)
ParseDigits(s) ==
    IF Len(s) = 0 THEN 0
    ELSE 10 * ParseDigits(SubSeq(s, 1, Len(s) - 1)) + DigitValue(s[Len(s)])

RECURSIVE FormatDigits(_)
FormatDigits(n) ==
    IF n < 10 THEN <<Digits[n + 1]>>
    ELSE Append(FormatDigits(n \div 10), Digits[(n % 10) + 1])

\* the text of an integer, and the integer a text of that form stands for
FormatInt(n) ==
    IF n >= 0 THEN FormatDigits(n) ELSE <<"-">> \o FormatDigits(0 - n)

ParseInt(s) ==
    IF s[1] = "-" THEN 0 - ParseDigits(Tail(s)) ELSE ParseDigits(s)

\* cells: v holds the characters of a str, and the digits of a number or of
\* a timestamp
Str(s) == [tag |-> "str", v |-> s]
Num(n) == [tag |-> "num", v |-> FormatInt(n)]
Time(t) == [tag |-> "time", v |-> FormatInt(t)]
PyNone == [tag |-> "None", v |-> <<>>]
FloatNaN == [tag |-> "NaN", v |-> <<>>]
PdNaT == [tag |-> "NaT", v |-> <<>>]
PdNA == [tag |-> "NA", v |-> <<>>]

\* the number or the time a cell of that kind holds
Value(c) == ParseInt(c.v)

\* pd.isna on one value
isna(c) == c.tag \in {"None", "NaN", "NaT", "NA"}

\* pd.to_numeric(errors="coerce") on one value: text that is not a number
\* and every missing value become NaN
to_numeric(c) ==
    IF c.tag = "num" THEN c
    ELSE IF c.tag = "str" /\ IsDigits(c.v) THEN Num(ParseDigits(c.v))
    ELSE IF c.tag = "str" /\ Len(c.v) > 1 /\ c.v[1] = "-" /\ IsDigits(Tail(c.v))
         THEN Num(0 - ParseDigits(Tail(c.v)))
    ELSE FloatNaN

\* mutant: errors="ignore", the text that is not a timestamp stays
to_datetime_ignore(c) ==
    IF c.tag = "time" THEN c
    ELSE IF c.tag = "num" THEN Time(Value(c))
    ELSE IF c.tag = "str" /\ IsDigits(c.v) THEN Time(ParseDigits(c.v))
    ELSE IF c.tag = "str" THEN c
    ELSE PdNaT

\* pd.to_datetime(errors="coerce", utc=True) on one value; timestamps are
\* written as their digits, and text that is not a timestamp becomes NaT
to_datetime(c) ==
    IF c.tag = "time" THEN c
    ELSE IF c.tag = "num" THEN Time(Value(c))
    ELSE IF c.tag = "str" /\ IsDigits(c.v) THEN Time(ParseDigits(c.v))
    ELSE PdNaT

\* Series.astype("string") on one value
astype_string(c) ==
    IF isna(c) THEN PdNA
    ELSE IF c.tag = "str" THEN c
    ELSE Str(c.v)

LowerLetters ==
    <<"a", "b", "c", "d", "e", "f", "g", "h", "i", "j", "k", "l", "m",
      "n", "o", "p", "q", "r", "s", "t", "u", "v", "w", "x", "y", "z">>
UpperLetters ==
    <<"A", "B", "C", "D", "E", "F", "G", "H", "I", "J", "K", "L", "M",
      "N", "O", "P", "Q", "R", "S", "T", "U", "V", "W", "X", "Y", "Z">>

LowerSet == Range(LowerLetters)
UpperSet == Range(UpperLetters)

IsLetter(ch) == ch \in LowerSet \/ ch \in UpperSet

ToLower(ch) ==
    IF ch \in UpperSet
    THEN LowerLetters[CHOOSE i \in DOMAIN UpperLetters : UpperLetters[i] = ch]
    ELSE ch

ToUpper(ch) ==
    IF ch \in LowerSet
    THEN UpperLetters[CHOOSE i \in DOMAIN LowerLetters : LowerLetters[i] = ch]
    ELSE ch

RECURSIVE lstrip(_)
lstrip(s) == IF Len(s) > 0 /\ s[1] = " " THEN lstrip(Tail(s)) ELSE s

RECURSIVE rstrip(_)
rstrip(s) ==
    IF Len(s) > 0 /\ s[Len(s)] = " " THEN rstrip(SubSeq(s, 1, Len(s) - 1))
    ELSE s

\* the .str accessor leaves a missing value missing
str_strip(c) == IF isna(c) THEN c ELSE Str(lstrip(rstrip(c.v)))

str_lower(c) ==
    IF isna(c) THEN c ELSE Str([i \in DOMAIN c.v |-> ToLower(c.v[i])])

\* str.title(): a letter after a non-letter is upper case, any other lower
str_title(c) ==
    IF isna(c) THEN c
    ELSE Str([i \in DOMAIN c.v |->
                IF i = 1 \/ ~IsLetter(c.v[i - 1]) THEN ToUpper(c.v[i])
                ELSE ToLower(c.v[i])])

NoTable == [columns |-> {}, rows |-> <<>>]

\* Series.where(pd.notna(s), None) on an object column gives None; on the
\* float column story_points pandas before 1.3 gives None and later
\* versions keep NaN, so keeps_nan is the choice of the installed pandas
where_notna(c, float_column, keeps_nan) ==
    IF ~isna(c) THEN c
    ELSE IF float_column /\ keeps_nan THEN FloatNaN ELSE PyNone

\* the conversion named how of the cell c
Convert(how, c) ==
    CASE how = "to_datetime" -> to_datetime(c)
      [] how = "to_numeric" -> to_numeric(c)
      [] how = "where_object" -> where_notna(c, FALSE, FALSE)
      [] how = "where_float_None" -> where_notna(c, TRUE, FALSE)
      [] how = "where_float_NaN" -> where_notna(c, TRUE, TRUE)
      [] how = "string" -> astype_string(c)
      [] how = "strip_lower" -> str_lower(str_strip(astype_string(c)))
      [] how = "strip_title" -> str_title(str_strip(astype_string(c)))

\* out[c] = convert(out[c]) for the columns c of cs the table has
MapColumns(t, cs, how) ==
    [columns |-> t.columns,
     rows |-> [k \in DOMAIN t.rows |->
                 [c \in t.columns |->
                    IF c \in cs THEN Convert(how, t.rows[k][c])
                    ELSE t.rows[k][c]]]]

coerce_dates(t) == MapColumns(t, DATE_COLS, "to_datetime")

coerce_nums(t) == MapColumns(t, NUM_COLS, "to_numeric")

\* _nan_to_none_for_optional: the optional string columns, then the
\* optional numeric columns
nan_to_none_for_optional(t, keeps_nan) ==
    MapColumns(MapColumns(t, OPTIONAL_STR_COLS, "where_object"),
               OPTIONAL_NUM_COLS,
               IF keeps_nan THEN "where_float_NaN" ELSE "where_float_None")

\* the light normalization of sprint_id, issue_type and status
normalize(t) ==
    MapColumns(MapColumns(MapColumns(t, {"sprint_id"}, "string"),
                          {"issue_type"}, "strip_lower"),
               {"status"}, "strip_title")

\* _noneify: NaN, NaT and NA reach the row model as None
noneify(c) == IF isna(c) THEN PyNone ELSE c

\* mutant: story_points without the bound ge=0
FieldOk_any_points(name, x) ==
    IF name \in {"issue_id", "issue_type", "status", "sprint_id"}
    THEN x.tag = "str"
    ELSE IF name \in {"created", "sprint_start", "sprint_end"}
    THEN x.tag = "time"
    ELSE IF name \in {"updated", "resolved"}
    THEN x.tag \in {"None", "time"}
    ELSE IF name = "story_points"
    THEN x.tag \in {"None", "num"}
    ELSE x.tag \in {"None", "str"}

\* whether the row model Issue accepts the value x for its field name
FieldOk(name, x) ==
    IF name \in {"issue_id", "issue_type", "status", "sprint_id"}
    THEN x.tag = "str"
    ELSE IF name \in {"created", "sprint_start", "sprint_end"}
    THEN x.tag = "time"
    ELSE IF name \in {"updated", "resolved"}
    THEN x.tag \in {"None", "time"}
    ELSE IF name = "story_points"
    THEN x.tag = "None" \/ (x.tag = "num" /\ Value(x) >= 0)
    ELSE x.tag \in {"None", "str"}

\* the fields of Issue that have no default
IssueRequired ==
    {"issue_id", "issue_type", "status", "created", "sprint_id",
     "sprint_start", "sprint_end"}

\* the fields Issue.model_validate rejects in one record of the columns cols
BadFields(rec, cols) ==
    {c \in Headers \cap cols : ~FieldOk(c, noneify(rec[c]))}
        \cup (IssueRequired \ cols)

\* the number of row errors after which validation stops reading rows
MaxRowErrors == 5

MoreRowsInvalid == [kind |-> "more rows invalid", row |-> 0, fields |-> {}]

\* the loop over the records from record k on, errs collected so far
RECURSIVE row_errors(_, _, _)
row_errors(t, k, errs) ==
    IF k > Len(t.rows) THEN errs
    ELSE IF BadFields(t.rows[k], t.columns) = {}
    THEN row_errors(t, k + 1, errs)
    ELSE LET e == Append(errs, [kind |-> "row", row |-> k - 1,
                                fields |-> BadFields(t.rows[k], t.columns)])
         IN  IF Len(e) >= MaxRowErrors THEN Append(e, MoreRowsInvalid)
             ELSE row_errors(t, k + 1, e)

Problem(kind, cols) == [kind |-> kind, cols |-> cols]

\* mutant: out is the caller's table itself
copy_alias(d) == [table |-> d, alias |-> TRUE]

\* DataFrame.copy(): a new table with the same cells
copy(d) == [table |-> d, alias |-> FALSE]

NoNorm ==
    [status |-> "none", problems |-> <<>>, errs |-> <<>>, table |-> NoTable]

\* the outcomes of a call: status "ok" and the returned table, or the
\* raised error with the problems or the row errors of its message; df is
\* the caller's table after the call
RaisedProblems(problems, caller) ==
    [status |-> "ValueError", problems |-> problems, errs |-> <<>>,
     table |-> NoTable, df |-> caller]

RaisedRows(errs, caller) ==
    [status |-> "ValueError", problems |-> <<>>, errs |-> errs,
     table |-> NoTable, df |-> caller]

ReturnedTable(t, caller) ==
    [status |-> "ok", problems |-> <<>>, errs |-> <<>>, table |-> t,
     df |-> caller]

\* lines 98-135: normalization, None for missing optionals, row validation
validate_rows_of(df0, alias, normalized, rows_checked) ==
    LET errs == IF rows_checked THEN row_errors(normalized, 1, <<>>) ELSE <<>>
        caller == IF alias THEN normalized ELSE df0
    IN  IF errs # <<>> THEN RaisedRows(errs, caller)
        ELSE ReturnedTable(normalized, caller)

\* mutant: the error names only the first problem found
check_identifiers_first(df0, alias, p1, coerced, rows_checked, keeps_nan) ==
    LET nulls == SelectSeq(IdentifierCols, LAMBDA col :
                    /\ col \in coerced.columns
                    /\ \E k \in DOMAIN coerced.rows : isna(coerced.rows[k][col]))
        problems == p1 \o [k \in DOMAIN nulls |->
                             Problem("Null values found", {nulls[k]})]
    IN  IF problems # <<>>
        THEN RaisedProblems(<<problems[1]>>, IF alias THEN coerced ELSE df0)
        ELSE validate_rows_of(df0, alias,
                 nan_to_none_for_optional(normalize(coerced), keeps_nan),
                 rows_checked)

\* lines 90-96: the null checks on the identifiers, and the raise
check_identifiers(df0, alias, p1, coerced, rows_checked, keeps_nan) ==
    LET nulls == SelectSeq(IdentifierCols, LAMBDA col :
                    /\ col \in coerced.columns
                    /\ \E k \in DOMAIN coerced.rows : isna(coerced.rows[k][col]))
        problems == p1 \o [k \in DOMAIN nulls |->
                             Problem("Null values found", {nulls[k]})]
    IN  IF problems # <<>>
        THEN RaisedProblems(problems, IF alias THEN coerced ELSE df0)
        ELSE validate_rows_of(df0, alias,
                 nan_to_none_for_optional(normalize(coerced), keeps_nan),
                 rows_checked)

validate_and_normalize(df0, rows_checked, keeps_nan) ==
    LET missing == REQUIRED_COLS \ df0.columns
        p1 == IF missing # {}
              THEN <<Problem("Missing columns", missing)>> ELSE <<>>
        c == copy(df0)
    IN  check_identifiers(df0, c.alias, p1,
                          coerce_nums(coerce_dates(c.table)),
                          rows_checked, keeps_nan)

\* no table has been handed to validate_and_normalize
NoSchema ==
    /\ raw = NoTable
    /\ validate_rows = TRUE
    /\ norm = NoNorm

\* a session in which no page has run yet: st.session_state holds no key
EmptySession == [k \in {} |-> 0]

NoSession == session_state = EmptySession

(***************************************************************************)
(* State machine: a dataset is assembled row by row, then one of the KPI   *)
(* functions is applied to it.                                             *)
(***************************************************************************)
InitKpi ==
    /\ df = <<>>
    /\ op = "none"
    /\ out = <<>>
    /\ series = <<>>
    /\ horizon = 0
    /\ draws = 0
    /\ patched = FALSE
    /\ fc = NoCall
    /\ prev = NoCall
    /\ NoScenario
    /\ NoSchema
    /\ NoSession

CalcVelocity ==
    /\ op = "none"
    /\ op' = "calc_velocity"
    /\ out' = calc_velocity(df)
    /\ UNCHANGED <<df, forecastVars, scenarioVars, schemaVars, pageVars>>

CalcThroughput ==
    /\ op = "none"
    /\ op' = "calc_throughput"
    /\ out' = calc_throughput(df)
    /\ UNCHANGED <<df, forecastVars, scenarioVars, schemaVars, pageVars>>

CalcCarryoverRate ==
    /\ op = "none"
    /\ op' = "calc_carryover_rate"
    /\ out' = calc_carryover_rate(df)
    /\ UNCHANGED <<df, forecastVars, scenarioVars, schemaVars, pageVars>>

AddWindowRow ==
    /\ op = "none"
    /\ Len(df) < MaxRows
    /\ \E r \in WindowRows : df' = Append(df, r)
    /\ UNCHANGED <<op, out, forecastVars, scenarioVars, schemaVars, pageVars>>

NextKpi == AddWindowRow \/ CalcVelocity \/ CalcThroughput \/ CalcCarryoverRate

SpecKpi == InitKpi /\ [][NextKpi]_vars

\* the defect ratio, over datasets whose rows vary in issue type
AddTypeRow ==
    /\ op = "none"
    /\ Len(df) < MaxRows
    /\ \E r \in TypeRows : df' = Append(df, r)
    /\ UNCHANGED <<op, out, forecastVars, scenarioVars, schemaVars, pageVars>>

CalcDefectRatio ==
    /\ op = "none"
    /\ op' = "calc_defect_ratio"
    /\ out' = calc_defect_ratio(df)
    /\ UNCHANGED <<df, forecastVars, scenarioVars, schemaVars, pageVars>>

NextDefect == AddTypeRow \/ CalcDefectRatio

SpecDefect == InitKpi /\ [][NextDefect]_vars

(***************************************************************************)
(* State machine: mc_velocity_forecast is called on a velocity Series.     *)
(***************************************************************************)
\* the row the patched np.random.choice of the test returns for every trial
Pattern == <<3, 5, 3>>

Velocities == {3, 5, NaN}

InitForecast ==
    /\ df = <<>>
    /\ op = "none"
    /\ out = <<>>
    /\ series \in UNION {[1..n -> Velocities] : n \in 0..MaxHist}
    /\ horizon \in -1..MaxHorizon
    /\ draws \in -1..MaxDraws
    /\ patched \in BOOLEAN
    /\ fc = NoCall
    /\ prev = NoCall
    /\ NoScenario
    /\ NoSchema
    /\ NoSession

McVelocityForecast ==
    /\ fc = NoCall
    /\ fc' \in mc_velocity_forecast(series, horizon, draws)
    /\ UNCHANGED <<kpiVars, series, horizon, draws, patched, prev, scenarioVars, schemaVars, pageVars>>

\* a second call with the same arguments
McVelocityForecastAgain ==
    /\ fc # NoCall
    /\ prev = NoCall
    /\ prev' = fc
    /\ fc' \in mc_velocity_forecast(series, horizon, draws)
    /\ UNCHANGED <<kpiVars, series, horizon, draws, patched, scenarioVars, schemaVars, pageVars>>

NextForecast == McVelocityForecast

SpecForecast == InitForecast /\ [][NextForecast]_vars

NextReplay == McVelocityForecast \/ McVelocityForecastAgain

SpecReplay == InitForecast /\ [][NextReplay]_vars

(***************************************************************************)
(* State machine: the Trends page forecasts, then applies a what-if        *)
(* scenario chosen with its three sliders.                                 *)
(***************************************************************************)
\* slider positions: capacity 0.5..1.5 in steps of 0.05, the others 0..30 %
CapacityMults == {50, 95, 100, 150}
ScopeGrowths == {0, 7, 30}
DefectUplifts == {0, 30}

\* the page asks for horizon >= 1 and draws >= 1 and passes velocities
InitScenario ==
    /\ df = <<>>
    /\ op = "none"
    /\ out = <<>>
    /\ series \in UNION {[1..n -> Velocities \ {NaN}] : n \in 0..MaxHist}
    /\ horizon \in 1..MaxHorizon
    /\ draws \in 1..MaxDraws
    /\ patched = FALSE
    /\ fc = NoCall
    /\ prev = NoCall
    /\ NoScenario
    /\ NoSchema
    /\ NoSession

AdjustAssumptions ==
    /\ fc.status = "ok"
    /\ fc_adj = NoCall
    /\ \E cap \in CapacityMults, sg \in ScopeGrowths, du \in DefectUplifts :
        /\ capacity_mult' = cap
        /\ scope_growth' = sg
        /\ defect_uplift' = du
        /\ fc_adj' = Returned(adjust(fc.table, cap, sg, du))
    /\ UNCHANGED <<kpiVars, forecastVars, schemaVars, pageVars>>

NextScenario == McVelocityForecast \/ AdjustAssumptions

SpecScenario == InitScenario /\ [][NextScenario]_vars

(***************************************************************************)
(* State machine: a dataset with created timestamps, and in some datasets  *)
(* an in_progress_start column, is assembled and calc_cycle_time applied.  *)
(***************************************************************************)
MaxCycleRows == 3

\* rows of datasets without an in_progress_start column
CreatedRows ==
    [issue_id : {"I1"}, issue_type : {TypeStory}, story_points : {2},
     resolved : {NaT, 1, 2, 4}, sprint_id : SprintIdSet,
     sprint_start : {0}, sprint_end : {4}, created : {NaT, 0, 3}]

\* rows of datasets with an in_progress_start column
StartedRows ==
    [issue_id : {"I1"}, issue_type : {TypeStory}, story_points : {2},
     resolved : {NaT, 1, 2, 4}, sprint_id : SprintIdSet,
     sprint_start : {0}, sprint_end : {4}, created : {0},
     in_progress_start : {NaT, 1, 3}]

AddCycleRow ==
    /\ op = "none"
    /\ Len(df) < MaxCycleRows
    /\ \E r \in CreatedRows \cup StartedRows :
        /\ df # <<>> => DOMAIN r = DOMAIN df[1]
        /\ df' = Append(df, r)
    /\ UNCHANGED <<op, out, forecastVars, scenarioVars, schemaVars, pageVars>>

CalcCycleTime ==
    /\ op = "none"
    /\ op' = "calc_cycle_time"
    /\ out' = calc_cycle_time(df)
    /\ UNCHANGED <<df, forecastVars, scenarioVars, schemaVars, pageVars>>

NextCycle == AddCycleRow \/ CalcCycleTime

SpecCycle == InitKpi /\ [][NextCycle]_vars

(***************************************************************************)
(* State machine: a dataset is assembled and compute_summary applied.      *)
(***************************************************************************)
\* rows that vary in points, resolution, sprint and sprint_start
SummaryRows ==
    [issue_id : {"I1"}, issue_type : {TypeStory},
     story_points : {NaN, 2, 2001, 2002}, resolved : {NaT, 5},
     sprint_id : SprintIdSet, sprint_start : {NaT, 1, 2}, sprint_end : {9},
     created : {0}]
    \cup
    [issue_id : {"I1"}, issue_type : {TypeBug},
     story_points : {NaN}, resolved : {5},
     sprint_id : SprintIdSet, sprint_start : {1, 2}, sprint_end : {9},
     created : {0}]

AddSummaryRow ==
    /\ op = "none"
    /\ Len(df) < MaxRows
    /\ \E r \in SummaryRows : df' = Append(df, r)
    /\ UNCHANGED <<op, out, forecastVars, scenarioVars, schemaVars, pageVars>>

ComputeSummary ==
    /\ op = "none"
    /\ op' = "compute_summary"
    /\ out' = compute_summary(df)
    /\ UNCHANGED <<df, forecastVars, scenarioVars, schemaVars, pageVars>>

NextSummary == AddSummaryRow \/ ComputeSummary

SpecSummary == InitKpi /\ [][NextSummary]_vars

(***************************************************************************)
(* State machine: a raw table is assembled row by row, then handed to      *)
(* validate_and_normalize.                                                 *)
(***************************************************************************)
\* one raw row: the identifiers, story_points, created, the optional
\* timestamps updated and resolved, and the six optional strings
RawRow(id, sprint, status, points, created, stamp, opt) ==
    [c \in Headers |->
        CASE c = "issue_id" -> id
          [] c = "sprint_id" -> sprint
          [] c = "status" -> status
          [] c = "story_points" -> points
          [] c = "created" -> created
          [] c \in {"updated", "resolved"} -> stamp
          [] c \in OPTIONAL_STR_COLS -> opt
          [] c = "issue_type" -> Str(<<" ", "B", "u", "g">>)
          [] c = "sprint_start" -> Str(<<"1">>)
          [] c = "sprint_end" -> Str(<<"3">>)]

IdA == Str(<<"A">>)
SprintS1 == Str(<<"S", "1">>)
StatusDone == Str(<<" ", "d", "O", "n", "e">>)
Unparseable == Str(<<"x">>)

\* rows that vary in their identifiers, and rows with sound identifiers that
\* vary in the values coercion and row validation look at
RawRows ==
    {RawRow(id, sp, st, Num(3), Str(<<"1">>), Time(2), Str(<<"x">>)) :
        id \in {IdA, PyNone}, sp \in {SprintS1, PdNA},
        st \in {StatusDone, FloatNaN}}
    \cup
    {RawRow(IdA, Num(7), StatusDone, Num(3), Str(<<"1">>), Time(2),
            Str(<<"x">>))}
    \cup
    {RawRow(IdA, SprintS1, StatusDone, p, cr, o[1], o[2]) :
        p \in {Num(3), Str(<<"-", "1">>), Unparseable, FloatNaN},
        cr \in {Str(<<"1">>), Unparseable},
        o \in {<<Time(2), Str(<<"x">>)>>, <<Unparseable, Str(<<"x">>)>>,
                <<PdNaT, FloatNaN>>}}

\* the column sets of the raw tables: all headers, two required columns
\* missing, an identifier column missing, optional columns missing
ColumnChoices ==
    {Headers,
     Headers \ {"story_points", "sprint_end"},
     Headers \ {"status"},
     Headers \ {"updated", "assignee"}}

InitSchema ==
    /\ df = <<>>
    /\ op = "none"
    /\ out = <<>>
    /\ series = <<>>
    /\ horizon = 0
    /\ draws = 0
    /\ patched = FALSE
    /\ fc = NoCall
    /\ prev = NoCall
    /\ NoScenario
    /\ raw \in {[columns |-> cs, rows |-> <<>>] : cs \in ColumnChoices}
    /\ validate_rows = TRUE
    /\ norm = NoNorm
    /\ NoSession

AddRawRow ==
    /\ norm.status = "none"
    /\ Len(raw.rows) < MaxRows
    /\ \E r \in RawRows :
        raw' = [raw EXCEPT !.rows = Append(@, [c \in raw.columns |-> r[c]])]
    /\ UNCHANGED <<kpiVars, forecastVars, scenarioVars, validate_rows, norm, pageVars>>

ValidateAndNormalize ==
    /\ norm.status = "none"
    /\ \E rows_checked \in BOOLEAN, keeps_nan \in BOOLEAN :
        \E r \in {validate_and_normalize(raw, rows_checked, keeps_nan)} :
            /\ validate_rows' = rows_checked
            /\ norm' = [status |-> r.status, problems |-> r.problems,
                        errs |-> r.errs, table |-> r.table]
            /\ raw' = r.df
    /\ UNCHANGED <<kpiVars, forecastVars, scenarioVars, pageVars>>

NextSchema == AddRawRow \/ ValidateAndNormalize

SpecSchema == InitSchema /\ [][NextSchema]_vars

(***************************************************************************)
(* State machine: a raw table of sound and unsound rows, long enough for   *)
(* the cap on the itemised row errors, is handed to validate_and_normalize.*)
(***************************************************************************)
MaxCheckedRows == 6

\* a sound row, a row with story_points below zero and a row whose created
\* is no date
CheckedRows ==
    {RawRow(IdA, SprintS1, StatusDone, p, cr, Time(2), Str(<<"x">>)) :
        <<p, cr>> \in {<<Num(3), Str(<<"1">>)>>,
                       <<Str(<<"-", "1">>), Str(<<"1">>)>>,
                       <<Num(3), Unparseable>>}}

InitRows ==
    /\ InitSchema
    /\ raw.columns = Headers

AddCheckedRow ==
    /\ norm.status = "none"
    /\ Len(raw.rows) < MaxCheckedRows
    /\ \E r \in CheckedRows : raw' = [raw EXCEPT !.rows = Append(@, r)]
    /\ UNCHANGED <<kpiVars, forecastVars, scenarioVars, validate_rows, norm, pageVars>>

NextRows == AddCheckedRow \/ ValidateAndNormalize

SpecRows == InitRows /\ [][NextRows]_vars

(***************************************************************************)
(* State machine: the core operations, each applied to an input of its     *)
(* kind: a dataset, a raw table or a velocity Series.                      *)
(***************************************************************************)
\* raw rows: sound, a null identifier, story points below zero, an
\* unparseable created, an unparseable updated, every optional missing
CoreRawRows ==
    {RawRow(IdA, SprintS1, StatusDone, Num(3), Str(<<"1">>), Time(2), Str(<<"x">>)),
     RawRow(PyNone, SprintS1, StatusDone, Num(3), Str(<<"1">>), Time(2), Str(<<"x">>)),
     RawRow(IdA, SprintS1, StatusDone, Str(<<"-", "1">>), Str(<<"1">>), Time(2),
            Str(<<"x">>)),
     RawRow(IdA, SprintS1, StatusDone, Num(3), Unparseable, Time(2), Str(<<"x">>)),
     RawRow(IdA, SprintS1, StatusDone, Num(3), Str(<<"1">>), Unparseable,
            Str(<<"x">>)),
     RawRow(IdA, SprintS1, StatusDone, FloatNaN, Str(<<"1">>), PdNaT, FloatNaN)}

CoreTables ==
    {[columns |-> cs, rows |-> [k \in DOMAIN rs |-> [c \in cs |-> rs[k][c]]]] :
        cs \in ColumnChoices,
        rs \in UNION {[1..n -> CoreRawRows] : n \in 0..MaxRows}}

\* datasets of rows resolved on day 1 of the sprint or not at all
CoreDatasets ==
    LET Chosen(rows) == {r \in rows : r.resolved \in {NaT, 2}}
    IN  UNION {[1..n -> Chosen(CreatedRows)] : n \in 0..MaxRows}
            \cup UNION {[1..n -> Chosen(StartedRows)] : n \in 1..MaxRows}

InitCore ==
    \/ /\ InitForecast
       /\ horizon = 1
       /\ draws = 1
    \/ /\ df \in CoreDatasets
       /\ op = "none"
       /\ out = <<>>
       /\ series = <<>>
       /\ horizon = 0
       /\ draws = 0
       /\ patched = FALSE
       /\ fc = NoCall
       /\ prev = NoCall
       /\ NoScenario
       /\ NoSchema
       /\ NoSession
    \/ /\ df = <<>>
       /\ op = "none"
       /\ out = <<>>
       /\ series = <<>>
       /\ horizon = 0
       /\ draws = 0
       /\ patched = FALSE
       /\ fc = NoCall
       /\ prev = NoCall
       /\ NoScenario
       /\ raw \in CoreTables
       /\ validate_rows = TRUE
       /\ norm = NoNorm
       /\ NoSession

NextCore ==
    \/ CalcVelocity
    \/ CalcThroughput
    \/ CalcCarryoverRate
    \/ CalcCycleTime
    \/ CalcDefectRatio
    \/ ValidateAndNormalize
    \/ McVelocityForecast

SpecCore == InitCore /\ [][NextCore]_vars

(***************************************************************************)
(* State machine: a dataset is assembled and a page computes the five      *)
(* metric tables and merges them into its KPI table.                       *)
(***************************************************************************)
\* stories that vary in points, resolution and sprint in the window 1..2,
\* rows without sprint_end, without created or without sprint_id, and bugs
TableRows ==
    [issue_id : {"I1"}, issue_type : {TypeStory}, story_points : {NaN, 2},
     resolved : {NaT, 0, 1, 2, 3}, sprint_id : SprintIdSet,
     sprint_start : {1}, sprint_end : {2}, created : {0}]
    \cup
    [issue_id : {"I1"}, issue_type : {TypeStory}, story_points : {2},
     resolved : {1}, sprint_id : SprintIdSet,
     sprint_start : {1}, sprint_end : {NaT, 2}, created : {NaT}]
    \cup
    [issue_id : {"I1"}, issue_type : {TypeBug}, story_points : {NaN},
     resolved : {2}, sprint_id : SprintIdSet \cup {NA},
     sprint_start : {1}, sprint_end : {2}, created : {0}]

AddTableRow ==
    /\ op = "none"
    /\ Len(df) < MaxRows
    /\ \E r \in TableRows : df' = Append(df, r)
    /\ UNCHANGED <<op, out, forecastVars, scenarioVars, schemaVars, pageVars>>

\* the Overview page stops before the table when the dataset is empty
BuildKpiTable ==
    /\ op = "none"
    /\ \E page \in Pages :
        /\ page = "01_Overview" => df # <<>>
        /\ op' = page
        /\ out' = build_kpi_table(df, page)
    /\ UNCHANGED <<df, forecastVars, scenarioVars, schemaVars, pageVars>>

NextTable == AddTableRow \/ BuildKpiTable

SpecTable == InitKpi /\ [][NextTable]_vars

(***************************************************************************)
(* State machine: a dataset in which an issue may have several rows is     *)
(* assembled and calc_throughput applied.                                  *)
(***************************************************************************)
IssueRows ==
    Issues({"I1", "I2"}, {TypeStory}, {2}, {NaT, 1, 3}, SprintIdSet, {1}, {2})

AddIssueRow ==
    /\ op = "none"
    /\ Len(df) < MaxRows
    /\ \E r \in IssueRows : df' = Append(df, r)
    /\ UNCHANGED <<op, out, forecastVars, scenarioVars, schemaVars, pageVars>>

NextIssues == AddIssueRow \/ CalcThroughput

SpecIssues == InitKpi /\ [][NextIssues]_vars

(***************************************************************************)
(* State machine: a dataset of up to three sprints is assembled and        *)
(* velocity_insights applied to it and a forecast table.                   *)
(***************************************************************************)
MaxInsightRows == 3

\* resolved stories of the sprints S1, S2 and S3
InsightRows ==
    Issues({"I1"}, {TypeStory}, {0, 5, 6, 10, 11}, {1},
           {SprintIds[i] : i \in DOMAIN SprintIds}, {1}, {2})

\* a forecast row with the band p10..p90
BandRow(k, p10, p90) ==
    [step |-> k, mean |-> p10, p10 |-> p10, p50 |-> p10, p90 |-> p90]

\* forecast tables: of no rows, of NaN, without the band columns, of one row
\* with a spread around the thresholds 3 and 6, and of two rows
ForecastTables ==
    {<<>>, NaNTable(1), <<[step |-> 1, mean |-> Q(5, 1)]>>}
    \cup {<<BandRow(1, Q(500, 100), Q(500 + w, 100))>> : w \in {299, 300, 599, 600}}
    \cup {<<BandRow(1, Q(5, 1), Q(7, 1)), BandRow(2, Q(5, 1), Q(9, 1))>>,
          <<BandRow(1, Q(0, 1), Q(0, 1)), BandRow(2, Q(0, 1), Q(0, 1))>>}

AddInsightRow ==
    /\ op = "none"
    /\ Len(df) < MaxInsightRows
    /\ \E r \in InsightRows : df' = Append(df, r)
    /\ UNCHANGED <<op, out, forecastVars, scenarioVars, schemaVars, pageVars>>

VelocityInsights ==
    /\ op = "none"
    /\ \E t \in ForecastTables :
        /\ fc' = Returned(t)
        /\ op' = "velocity_insights"
        /\ out' = velocity_insights(df, t)
    /\ UNCHANGED <<df, series, horizon, draws, patched, prev, scenarioVars, schemaVars, pageVars>>

NextInsights == AddInsightRow \/ VelocityInsights

SpecInsights == InitKpi /\ [][NextInsights]_vars

(***************************************************************************)
(* The Overview page (src/app/pages/01_Overview.py) with the column        *)
(* mapping of src/app/lib/adapt.py. st.session_state is a function of the  *)
(* keys it holds; one action is one run of the page script with the button *)
(* that started it.                                                        *)
(***************************************************************************)
REQUIRED_CANONICAL ==
    <<"issue_id", "issue_type", "status", "story_points",
      "created", "sprint_id", "sprint_start", "sprint_end">>

OPTIONAL_CANONICAL ==
    <<"updated", "resolved", "assignee", "reporter", "sprint_name",
      "parent_id", "labels", "priority">>

\* _SYNONYMS, each list followed by the canonical name as a phrase
Synonyms ==
    [issue_id |-> <<"issue id", "key", "ticket", "ticket key", "id",
                    "issue id">>,
     issue_type |-> <<"issue type", "type", "issuetype", "issue type">>,
     status |-> <<"status", "state", "workflow status", "status">>,
     story_points |-> <<"story points", "points", "sp", "estimate",
                        "storypoints", "story points">>,
     created |-> <<"created", "created date", "created on", "creation date",
                   "created">>,
     updated |-> <<"updated", "updated date", "last updated", "updated">>,
     resolved |-> <<"resolved", "resolution date", "done date", "completed",
                    "resolved">>,
     sprint_id |-> <<"sprint", "sprint id", "sprint key", "iteration",
                     "sprint name", "sprint id">>,
     sprint_name |-> <<"sprint name", "sprint title", "iteration name",
                       "sprint name">>,
     sprint_start |-> <<"sprint start", "start", "start date",
                        "sprint start date", "iteration start",
                        "sprint start">>,
     sprint_end |-> <<"sprint end", "end", "end date", "sprint end date",
                      "iteration end", "sprint end">>,
     assignee |-> <<"assignee", "owner", "assignee">>,
     reporter |-> <<"reporter", "created by", "reporter">>,
     parent_id |-> <<"parent", "parent id", "epic link", "parent key",
                     "parent id">>,
     labels |-> <<"labels", "tags", "tag", "labels">>,
     priority |-> <<"priority", "prio", "priority">>]

\* _norm of the headers the uploads of the model carry: lower case, every
\* run of other characters one blank
norm_header(c) ==
    CASE c = "issue_id" -> "issue id"
      [] c = "issue_type" -> "issue type"
      [] c = "story_points" -> "story points"
      [] c = "sprint_id" -> "sprint id"
      [] c = "sprint_name" -> "sprint name"
      [] c = "sprint_start" -> "sprint start"
      [] c = "sprint_end" -> "sprint end"
      [] c = "parent_id" -> "parent id"
      [] c = "Key" -> "key"
      [] OTHER -> c

\* a field of the mapping that names no column (None in the code)
Unmapped == "<none>"

\* infer_mapping: the first synonym of a field that a header matches
infer_mapping(t) ==
    [target \in Headers |->
        LET syns == Synonyms[target]
            hits == {i \in DOMAIN syns :
                        \E c \in t.columns : norm_header(c) = syns[i]}
            first == CHOOSE i \in hits : \A j \in hits : i <= j
        IN  IF hits = {} THEN Unmapped
            ELSE CHOOSE c \in t.columns : norm_header(c) = syns[first]]

\* apply_mapping: the canonical table of the mapped columns, or the error
\* that names the required fields without a column
apply_mapping(t, mapping) ==
    LET missing == {k \in Range(REQUIRED_CANONICAL) : mapping[k] = Unmapped}
    IN  IF missing # {}
        THEN [status |-> "ValueError",
              problems |-> <<Problem("Required fields not mapped", missing)>>,
              errs |-> <<>>, table |-> NoTable]
        ELSE [status |-> "ok", problems |-> <<>>, errs |-> <<>>,
              table |-> [columns |-> Headers,
                         rows |-> [k \in DOMAIN t.rows |->
                                     [c \in Headers |->
                                         IF mapping[c] # Unmapped
                                         THEN t.rows[k][mapping[c]]
                                         ELSE PyNone]]]]

\* astype(str): the text of a cell, of a missing one too
astype_str(c) ==
    CASE c.tag = "None" -> Str(<<"N", "o", "n", "e">>)
      [] c.tag = "NaN" -> Str(<<"n", "a", "n">>)
      [] c.tag = "NaT" -> Str(<<"N", "a", "T">>)
      [] c.tag = "NA" -> Str(<<"<", "N", "A", ">">>)
      [] OTHER -> Str(c.v)

\* load_sprint_csv (src/app/lib/data_access.py): the required columns, the
\* dates parsed, issue_type and status stripped and lowered
load_sprint_csv(t) ==
    LET missing == (REQUIRED_COLS \cup {"resolved"}) \ t.columns
        dated == MapColumns(t, DATE_COLS, "to_datetime")
    IN  IF missing # {}
        THEN [status |-> "ValueError",
              problems |-> <<Problem("Missing columns", missing)>>,
              errs |-> <<>>, table |-> NoTable]
        ELSE [status |-> "ok", problems |-> <<>>, errs |-> <<>>,
              table |->
                [columns |-> t.columns,
                 rows |-> [k \in DOMAIN t.rows |->
                    [c \in t.columns |->
                        IF c \in {"issue_type", "status"}
                        THEN str_lower(str_strip(astype_str(dated.rows[k][c])))
                        ELSE dated.rows[k][c]]]]]

\* the rows of the files of the model
SoundRow ==
    RawRow(IdA, SprintS1, StatusDone, Num(3), Str(<<"1">>), Time(2),
           Str(<<"x">>))

SecondSprintRow ==
    RawRow(Str(<<"B">>), Str(<<"S", "2">>), StatusDone, Num(5), Str(<<"1">>),
           Time(2), Str(<<"x">>))

NegativePointsRow ==
    RawRow(IdA, SprintS1, StatusDone, Str(<<"-", "1">>), Str(<<"1">>),
           Time(2), Str(<<"x">>))

\* data/sample_sprint.csv as pd.read_csv gives it: a sound file of two
\* sprints
SampleCsv == [columns |-> Headers, rows |-> <<SoundRow, SecondSprintRow>>]

\* the table t with the header old written as new
Renamed(t, old, new) ==
    [columns |-> (t.columns \ {old}) \cup {new},
     rows |-> [k \in DOMAIN t.rows |->
                 [c \in (t.columns \ {old}) \cup {new} |->
                     t.rows[k][IF c = new THEN old ELSE c]]]]

\* the files a user uploads: canonical headers, issue_id under the header
\* Key (a synonym) and under the header ref (no synonym), each with a
\* sound row or with a row of negative story points
Uploads ==
    UNION {{[columns |-> Headers, rows |-> <<r>>],
            Renamed([columns |-> Headers, rows |-> <<r>>], "issue_id", "Key"),
            Renamed([columns |-> Headers, rows |-> <<r>>], "issue_id", "ref")} :
           r \in {SoundRow, NegativePointsRow}}

\* st.session_state with the keys of new written over it
Assign(s, new) == new @@ s

\* the text of the source label: its source, len(df) and the sprints
SourceLabel(source, t) ==
    [source |-> source, rows |-> Len(t.rows),
     sprints |-> Cardinality({t.rows[k]["sprint_id"] : k \in DOMAIN t.rows})]

\* str(exc) of a failed load
ErrorText(r) == [problems |-> r.problems, errs |-> r.errs]

\* load_sprint_csv("data/sample_sprint.csv")
LoadedSample == load_sprint_csv(SampleCsv)

\* _read_and_validate("data/sample_sprint.csv")
read_and_validate(keeps_nan) ==
    IF LoadedSample.status # "ok" THEN LoadedSample
    ELSE validate_and_normalize(LoadedSample.table, TRUE, keeps_nan)

\* _ensure_state_defaults; df0 is what _read_and_validate gives
ensure_state_defaults(s, df0) ==
    LET s1 == IF "validated_df" \notin DOMAIN s
              THEN Assign(s, [validated_df |-> df0,
                              data_source |-> "sample: data/sample_sprint.csv",
                              df_current |-> df0,
                              source_label |->
                                  SourceLabel("sample: data/sample_sprint.csv",
                                              df0)])
              ELSE s
        s2 == IF "raw_upload_df" \notin DOMAIN s1
              THEN Assign(s1, [raw_upload_df |-> PyNone]) ELSE s1
        s3 == IF "current_mapping" \notin DOMAIN s2
              THEN Assign(s2, [current_mapping |-> PyNone]) ELSE s2
    IN  IF "upload_error_log" \notin DOMAIN s3
        THEN Assign(s3, [upload_error_log |-> PyNone]) ELSE s3

\* lines 383-384: df_current follows validated_df
share_current(s) == Assign(s, [df_current |-> s["validated_df"]])

\* mutant: the uploaded table is kept as it was read
use_uploaded_unvalidated(s, up, r) ==
    Assign(s, [validated_df |-> up,
               data_source |-> "uploaded: upload.csv",
               df_current |-> up,
               source_label |-> SourceLabel("uploaded: upload.csv", up),
               raw_upload_df |-> up,
               upload_error_log |-> PyNone])

\* lines 338-361: Use uploaded; r is what validate_and_normalize(df_raw)
\* came to
use_uploaded(s, up, r) ==
    IF r.status = "ok"
    THEN Assign(s, [validated_df |-> r.table,
                    data_source |-> "uploaded: upload.csv",
                    df_current |-> r.table,
                    source_label |->
                        SourceLabel("uploaded: upload.csv", r.table),
                    raw_upload_df |-> r.df,
                    upload_error_log |-> PyNone])
    ELSE Assign(s, [raw_upload_df |-> up,
                    upload_error_log |-> ErrorText(r)])

\* lines 363-377: Use bundled sample; df_sm is what _read_and_validate gives
use_sample(s, df_sm) ==
    Assign(s, [validated_df |-> df_sm,
               data_source |-> "sample: data/sample_sprint.csv",
               df_current |-> df_sm,
               source_label |->
                   SourceLabel("sample: data/sample_sprint.csv", df_sm),
               raw_upload_df |-> PyNone,
               upload_error_log |-> PyNone])

\* lines 194-242: the preselection of the select boxes, the stored mapping
\* before the detected one, <none> for a column the file does not have
preselected(s, df_raw) ==
    LET detected == infer_mapping(df_raw)
        stored == s["current_mapping"]
    IN  [key \in Headers |->
            LET kept == IF stored = PyNone THEN Unmapped ELSE stored[key]
                default == IF kept # Unmapped THEN kept ELSE detected[key]
            IN  IF default \in df_raw.columns THEN default ELSE Unmapped]

\* the mappings a user confirms: the preselection, or the preselection
\* with another choice for issue_id or story_points
MappingChoices(s, df_raw) ==
    {preselected(s, df_raw)} \cup
    {[preselected(s, df_raw) EXCEPT ![key] = choice] :
        key \in {"issue_id", "story_points"},
        choice \in {Unmapped} \cup
                   (df_raw.columns \cap {"ref", "sprint_id"})}

\* lines 281-302: Confirm mapping; r is what apply_mapping and
\* validate_and_normalize came to in the try block
confirm_mapping(s, mapping, r) ==
    IF r.status = "ok"
    THEN Assign(s, [validated_df |-> r.table,
                    df_current |-> r.table,
                    source_label |-> SourceLabel("mapped upload", r.table),
                    current_mapping |-> mapping,
                    upload_error_log |-> PyNone])
    ELSE Assign(s, [upload_error_log |-> ErrorText(r)])

\* lines 264-267: Reset mapping
reset_mapping(s) ==
    Assign(s, [current_mapping |-> PyNone, upload_error_log |-> PyNone])

\* what the try block of a run came to: the table it validated, or the
\* text of what it raised
Attempt(r) ==
    [status |-> r.status, table |-> r.table,
     text |-> IF r.status = "ok" THEN PyNone ELSE ErrorText(r)]

\* the first run of the page: no button has been drawn yet
OpenOverview ==
    /\ "validated_df" \notin DOMAIN session_state
    /\ \E keeps_nan \in BOOLEAN :
        \E sample \in {read_and_validate(keeps_nan)} :
            /\ session_state' =
                share_current(
                    ensure_state_defaults(session_state, sample.table))
            /\ out' = Attempt(sample)
    /\ op' = "open"
    /\ UNCHANGED <<df, forecastVars, scenarioVars, schemaVars>>

\* the runs after the first find every key in st.session_state, and
\* _ensure_state_defaults leaves them as they are
UseUploaded ==
    /\ "validated_df" \in DOMAIN session_state
    /\ \E up \in Uploads, keeps_nan \in BOOLEAN :
        \E r \in {validate_and_normalize(up, TRUE, keeps_nan)},
           s0 \in {ensure_state_defaults(session_state, NoTable)} :
            /\ session_state' = share_current(use_uploaded(s0, up, r))
            /\ out' = Attempt(r)
    /\ op' = "use_uploaded"
    /\ UNCHANGED <<df, forecastVars, scenarioVars, schemaVars>>

UseSample ==
    /\ "validated_df" \in DOMAIN session_state
    /\ \E keeps_nan \in BOOLEAN :
        \E sample \in {read_and_validate(keeps_nan)},
           s0 \in {ensure_state_defaults(session_state, NoTable)} :
            /\ session_state' = share_current(use_sample(s0, sample.table))
            /\ out' = Attempt(sample)
    /\ op' = "use_sample"
    /\ UNCHANGED <<df, forecastVars, scenarioVars, schemaVars>>

\* the mapping buttons are drawn when a raw upload is kept
ConfirmMapping ==
    /\ "validated_df" \in DOMAIN session_state
    /\ session_state["raw_upload_df"] # PyNone
    /\ \E keeps_nan \in BOOLEAN,
          s0 \in {share_current(
                     ensure_state_defaults(session_state, NoTable))} :
        \E mapping \in MappingChoices(s0, s0["raw_upload_df"]) :
            \E adapted \in {apply_mapping(s0["raw_upload_df"], mapping)} :
                \E r \in {IF adapted.status # "ok" THEN adapted
                          ELSE validate_and_normalize(adapted.table, TRUE,
                                                      keeps_nan)} :
                    /\ session_state' = confirm_mapping(s0, mapping, r)
                    /\ out' = Attempt(r)
    /\ op' = "confirm_mapping"
    /\ UNCHANGED <<df, forecastVars, scenarioVars, schemaVars>>

ResetMapping ==
    /\ "validated_df" \in DOMAIN session_state
    /\ session_state["raw_upload_df"] # PyNone
    /\ \E s0 \in {share_current(
                     ensure_state_defaults(session_state, NoTable))} :
        session_state' = reset_mapping(s0)
    /\ op' = "reset_mapping"
    /\ out' = <<>>
    /\ UNCHANGED <<df, forecastVars, scenarioVars, schemaVars>>

\* the button is disabled while no error is kept
ViewErrorReport ==
    /\ "validated_df" \in DOMAIN session_state
    /\ session_state["raw_upload_df"] # PyNone
    /\ session_state["upload_error_log"] # PyNone
    /\ \E s0 \in {share_current(
                     ensure_state_defaults(session_state, NoTable))} :
        session_state' = s0
    /\ op' = "show_errors"
    /\ out' = <<>>
    /\ UNCHANGED <<df, forecastVars, scenarioVars, schemaVars>>

NextOverview ==
    \/ OpenOverview
    \/ UseUploaded
    \/ UseSample
    \/ ConfirmMapping
    \/ ResetMapping
    \/ ViewErrorReport

SpecOverview == InitKpi /\ [][NextOverview]_vars

(***************************************************************************)
(* The saved what-if scenarios of the Trends page                          *)
(* (src/app/pages/02_Trends.py, lines 377-481). One action is one run of   *)
(* the page script: it forecasts, applies the sliders and handles the      *)
(* button that started it.                                                 *)
(***************************************************************************)
\* {}: a dict without keys
EmptyDict == EmptySession

\* lines 379-382
scenario_defaults(s) ==
    LET s1 == IF "scenarios" \notin DOMAIN s
              THEN Assign(s, [scenarios |-> EmptyDict]) ELSE s
    IN  IF "scenario_summaries" \notin DOMAIN s1
        THEN Assign(s1, [scenario_summaries |-> EmptyDict]) ELSE s1

\* eff_mult as an exact fraction, cap in hundredths
EffectiveMultiplier(cap, sg, du) ==
    Reduced(Q(cap * 100, (100 + sg) * (100 + du)))

\* lines 418-421 and 469-475: the summary kept with a scenario
scenario_summary(base, adj, cap, sg, du) ==
    LET base_p50 == base[1].p50
        adj_p50 == adj[1].p50
        delta == QSub(adj_p50, base_p50)
    IN  [base_p50 |-> base_p50,
         what_if_p50 |-> adj_p50,
         delta_sp |-> delta,
         delta_pct |-> IF base_p50.num = 0 THEN Q(0, 1)
                       ELSE Reduced(Q(delta.num * base_p50.den * 100,
                                      delta.den * base_p50.num)),
         effective_multiplier |-> EffectiveMultiplier(cap, sg, du)]

\* mutant: the summary is kept under the name as it was typed
save_scenario_unstripped(s, scen_name, base, adj, cap, sg, du) ==
    LET name == lstrip(rstrip(scen_name))
    IN  Assign(s,
          [scenarios |->
              (name :> [capacity_mult |-> cap, scope_growth |-> sg,
                        defect_uplift |-> du]) @@ s["scenarios"],
           scenario_summaries |->
              (scen_name :> scenario_summary(base, adj, cap, sg, du))
                  @@ s["scenario_summaries"]])

\* lines 463-476: Save scenario
save_scenario(s, scen_name, base, adj, cap, sg, du) ==
    LET name == lstrip(rstrip(scen_name))
    IN  Assign(s,
          [scenarios |->
              (name :> [capacity_mult |-> cap, scope_growth |-> sg,
                        defect_uplift |-> du]) @@ s["scenarios"],
           scenario_summaries |->
              (name :> scenario_summary(base, adj, cap, sg, du))
                  @@ s["scenario_summaries"]])

\* lines 478-481: Clear all
clear_all(s) ==
    Assign(s, [scenarios |-> EmptyDict, scenario_summaries |-> EmptyDict])

\* the texts typed into the name box
ScenarioNames ==
    {<<>>, <<" ">>, <<"a">>, <<" ", "a">>, <<"b", " ">>}

\* the slider positions of the runs: capacity in hundredths, scope growth
\* and defect uplift in percent
WhatIfSliders == {<<100, 0, 0>>, <<95, 7, 0>>, <<150, 0, 30>>}

\* the page on a dataset without history and on one with two sprints
InitTrends ==
    /\ InitScenario
    /\ series \in {<<>>, <<3, 5>>}
    /\ horizon = 1
    /\ draws = 1

\* a run started by a slider, or the first run of the page
MoveSliders ==
    /\ \E base \in mc_velocity_forecast(series, horizon, draws),
          pos \in WhatIfSliders :
        /\ fc' = base
        /\ capacity_mult' = pos[1]
        /\ scope_growth' = pos[2]
        /\ defect_uplift' = pos[3]
        /\ fc_adj' = Returned(adjust(base.table, pos[1], pos[2], pos[3]))
    /\ session_state' = scenario_defaults(session_state)
    /\ op' = "sliders"
    /\ out' = <<>>
    /\ UNCHANGED <<df, series, horizon, draws, patched, prev, schemaVars>>

\* a run started by Save scenario: the button is disabled while the name
\* is blank; the sliders stay where they are
SaveScenario ==
    /\ "scenarios" \in DOMAIN session_state
    /\ \E base \in mc_velocity_forecast(series, horizon, draws),
          scen_name \in ScenarioNames :
        \E adj \in {adjust(base.table, capacity_mult, scope_growth,
                           defect_uplift)} :
            /\ lstrip(rstrip(scen_name)) # <<>>
            /\ fc' = base
            /\ fc_adj' = Returned(adj)
            /\ session_state' =
                  save_scenario(scenario_defaults(session_state), scen_name,
                                base.table, adj, capacity_mult, scope_growth,
                                defect_uplift)
            /\ out' = [typed |-> scen_name,
                       known |-> lstrip(rstrip(scen_name))
                                    \in DOMAIN session_state["scenarios"]]
    /\ op' = "save_scenario"
    /\ UNCHANGED <<df, series, horizon, draws, patched, prev, capacity_mult,
                   scope_growth, defect_uplift, schemaVars>>

\* a run started by Clear all
ClearAll ==
    /\ "scenarios" \in DOMAIN session_state
    /\ \E base \in mc_velocity_forecast(series, horizon, draws) :
        /\ fc' = base
        /\ fc_adj' = Returned(adjust(base.table, capacity_mult, scope_growth,
                                     defect_uplift))
    /\ session_state' = clear_all(scenario_defaults(session_state))
    /\ op' = "clear_all"
    /\ out' = <<>>
    /\ UNCHANGED <<df, series, horizon, draws, patched, prev, capacity_mult,
                   scope_growth, defect_uplift, schemaVars>>

NextTrends == MoveSliders \/ SaveScenario \/ ClearAll

SpecTrends == InitTrends /\ [][NextTrends]_vars

(***************************************************************************)
(* Properties of the KPI functions.                                        *)
(***************************************************************************)
\* a row qualifies: sprint_id, sprint_start, sprint_end and resolved are all
\* present and sprint_start <= resolved <= sprint_end
Qualifies(r) ==
    /\ r.sprint_id # NA
    /\ r.sprint_start # NaT
    /\ r.sprint_end # NaT
    /\ r.resolved # NaT
    /\ r.sprint_start <= r.resolved
    /\ r.resolved <= r.sprint_end

\* indices of the qualifying rows of sprint s
QualifyingIn(s) == {i \in DOMAIN df : df[i].sprint_id = s /\ Qualifies(df[i])}

\* indices of the rows of sprint s that contribute to its velocity
PointedIn(s) == {i \in QualifyingIn(s) : df[i].story_points # NaN}

\* indices of all rows assigned to sprint s
AssignedIn(s) == {i \in DOMAIN df : df[i].sprint_id = s}

RECURSIVE PointsOf(_)
PointsOf(idx) ==
    IF idx = {} THEN 0
    ELSE LET i == CHOOSE j \in idx : TRUE
         IN  df[i].story_points + PointsOf(idx \ {i})

\* the positions of the result rows of sprint s
RowsOf(s) == {k \in DOMAIN out : out[k].sprint_id = s}

\* fraction q equals n/d, and 0 when d = 0
EqualsQuotient(q, n, d) ==
    IF d = 0 THEN q.num = 0 ELSE q.num * d = n * q.den

InUnitInterval(q) == q.den > 0 /\ 0 <= q.num /\ q.num <= q.den

ThroughputIsCountOfQualifying ==
    op = "calc_throughput" =>
        /\ \A k \in DOMAIN out : out[k].sprint_id \in SprintIdSet
        /\ \A s \in SprintIdSet :
            IF QualifyingIn(s) = {} THEN RowsOf(s) = {}
            ELSE /\ Cardinality(RowsOf(s)) = 1
                 /\ \A k \in RowsOf(s) :
                        /\ out[k].throughput_issues = Cardinality(QualifyingIn(s))
                        /\ out[k].throughput_issues >= 0
                        /\ out[k].throughput_issues >= Cardinality(PointedIn(s))

\* C2 witness: a sprint whose throughput of 2 includes a row without points
ThroughputWitness ==
    /\ op = "calc_throughput"
    /\ \E k \in DOMAIN out :
        /\ out[k].throughput_issues = 2
        /\ Cardinality(PointedIn(out[k].sprint_id)) = 1

\* C3 as stated: the rate of every listed sprint is (issues of the sprint
\* whose resolved is absent or later than sprint_end) / (issues of the
\* sprint), 0 without issues, and within [0, 1].
CarryoverCountsEveryUnresolved ==
    op = "calc_carryover_rate" =>
        \A k \in DOMAIN out :
            LET s == out[k].sprint_id
                late == {i \in AssignedIn(s) :
                            \/ df[i].resolved = NaT
                            \/ (df[i].sprint_end # NaT /\ df[i].resolved > df[i].sprint_end)}
            IN  /\ EqualsQuotient(out[k].carryover_rate,
                                  Cardinality(late), Cardinality(AssignedIn(s)))
                /\ InUnitInterval(out[k].carryover_rate)

\* C3 amended: the numerator counts only issues whose sprint_end is present:
\* the rate is (issues of the sprint with sprint_end present whose resolved
\* is absent or later than sprint_end) / (issues of the sprint), 0 without
\* issues, and within [0, 1].
CarryoverCountsUnfinishedWithEnd ==
    op = "calc_carryover_rate" =>
        \A k \in DOMAIN out :
            LET s == out[k].sprint_id
                late == {i \in AssignedIn(s) :
                            /\ df[i].sprint_end # NaT
                            /\ (df[i].resolved = NaT \/ df[i].resolved > df[i].sprint_end)}
            IN  /\ EqualsQuotient(out[k].carryover_rate,
                                  Cardinality(late), Cardinality(AssignedIn(s)))
                /\ InUnitInterval(out[k].carryover_rate)

\* C3 witness: a sprint of two unresolved issues with rate 1/2: the one with a
\* sprint_end is carried over, the one without a sprint_end is not counted
CarryoverWitness ==
    /\ op = "calc_carryover_rate"
    /\ \E k \in DOMAIN out :
        /\ out[k].carryover_rate = [num |-> 1, den |-> 2]
        /\ \A i \in AssignedIn(out[k].sprint_id) : df[i].resolved = NaT
        /\ \E i \in AssignedIn(out[k].sprint_id) : df[i].sprint_end = NaT

\* C4: calc_carryover_rate has exactly one row for every distinct non-null
\* sprint_id of the dataset and no other row.
CarryoverRosterIsFull ==
    op = "calc_carryover_rate" =>
        /\ {out[k].sprint_id : k \in DOMAIN out}
              = {df[i].sprint_id : i \in DOMAIN df} \ {NA}
        /\ \A s \in SprintIdSet : Cardinality(RowsOf(s)) <= 1

\* C4 witness: a sprint with no unfinished and no qualifying issue is listed
\* with rate 0, next to a sprint with an unfinished issue
CarryoverRosterWitness ==
    /\ op = "calc_carryover_rate"
    /\ Len(out) = 2
    /\ \E k \in DOMAIN out :
        /\ out[k].carryover_rate.num = 0
        /\ QualifyingIn(out[k].sprint_id) = {}
    /\ \E k \in DOMAIN out : out[k].carryover_rate.num = 1

\* C5: every row of calc_defect_ratio is (qualifying rows of the sprint whose
\* type is bug) / (qualifying rows of the sprint), with a positive
\* denominator, and within [0, 1]; the sprints listed are those with a
\* qualifying row.
DefectRatioIsShareOfBugs ==
    op = "calc_defect_ratio" =>
        /\ {out[k].sprint_id : k \in DOMAIN out}
              = {s \in SprintIdSet : QualifyingIn(s) # {}}
        /\ \A k \in DOMAIN out :
            LET s == out[k].sprint_id
                bugs == {i \in QualifyingIn(s) : IsBug(df[i].issue_type)}
            IN  /\ Cardinality(QualifyingIn(s)) > 0
                /\ out[k].defect_ratio.den = Cardinality(QualifyingIn(s))
                /\ out[k].defect_ratio.num = Cardinality(bugs)
                /\ InUnitInterval(out[k].defect_ratio)

\* C5 witness: one bug among two qualifying rows of a sprint
DefectRatioWitness ==
    /\ op = "calc_defect_ratio"
    /\ \E k \in DOMAIN out : out[k].defect_ratio = [num |-> 1, den |-> 2]

\* the bug/defect vocabulary, matched as a case-insensitive substring
DefectVocabulary == {TypeBug, TypeDefect}

Contains(t, tok) ==
    \E i \in 0..(Len(t) - Len(tok)) : SubSeq(t, i + 1, i + Len(tok)) = tok

MatchesDefectVocabulary(t) ==
    t # NoType /\ \E tok \in DefectVocabulary : Contains(lower(t), tok)

\* C6: the numerator of calc_defect_ratio counts every qualifying row whose
\* issue_type contains a token of the bug/defect vocabulary, ignoring case.
DefectRatioMatchesVocabulary ==
    op = "calc_defect_ratio" =>
        \A k \in DOMAIN out :
            out[k].defect_ratio.num
                = Cardinality({i \in QualifyingIn(out[k].sprint_id) :
                                  MatchesDefectVocabulary(df[i].issue_type)})

(***************************************************************************)
(* Properties of the forecast.                                             *)
(***************************************************************************)
\* fraction q is the number v
IsValue(q, v) == q.den > 0 /\ q.num = v * q.den

\* C7: with np.random.choice patched to give the row Pattern for every trial
\* and history [3, 5], the forecast has steps 1..horizon in order and mean, p10,
\* p50 and p90 of each step equal the pattern's value there, for any draws.
PatchedSamplerFixesForecast ==
    (/\ patched
     /\ fc # NoCall
     /\ hist_of(series) = <<3, 5>>
     /\ horizon \in 1..Len(Pattern)
     /\ draws >= 1)
    => /\ fc.status = "ok"
       /\ Len(fc.table) = horizon
       /\ \A k \in DOMAIN fc.table :
            /\ fc.table[k].step = k
            /\ IsValue(fc.table[k].mean, Pattern[k])
            /\ IsValue(fc.table[k].p10, Pattern[k])
            /\ IsValue(fc.table[k].p50, Pattern[k])
            /\ IsValue(fc.table[k].p90, Pattern[k])

\* C8: with an empty history the forecast is a table without rows, for any
\* (valid) horizon and draws.
EmptyHistoryGivesNoRows ==
    (fc # NoCall /\ hist_of(series) = <<>> /\ horizon >= 1 /\ draws >= 1)
    => (fc.status = "ok" /\ fc.table = <<>>)

\* C9: a call with horizon < 1 or draws < 1 fails with ComputationError and
\* returns no table.
InvalidConfigurationFailsFast ==
    (fc # NoCall /\ (horizon < 1 \/ draws < 1))
    => fc.status = "ComputationError"

\* C10: two calls with the same history, horizon >= 1 and draws >= 1 (and the
\* same random source) return identical tables.
SameArgumentsSameForecast ==
    (prev # NoCall /\ fc # NoCall /\ horizon >= 1 /\ draws >= 1) => fc = prev

(***************************************************************************)
(* Properties of the what-if adjustment.                                   *)
(***************************************************************************)
Abs(x) == IF x < 0 THEN -x ELSE x

\* a (in hundredths) is the nearest hundredth to b * cap / (1 + sg/100) / (1 + du/100)
IsScaledAndRounded(a, b, cap, sg, du) ==
    LET d == b.den * (100 + sg) * (100 + du)
    IN  /\ a.den = 100
        /\ 2 * Abs(a.num * d - b.num * cap * 10000) <= d

\* a equals b up to rounding to 2 decimals
EqualUpToRounding(a, b) ==
    a.den = 100 /\ 2 * Abs(a.num * b.den - 100 * b.num) <= b.den

\* C11: every row of the adjusted forecast keeps its step and has mean, p10,
\* p50 and p90 equal to the base value times capacity_mult / (1 +
\* scope_growth/100) / (1 + defect_uplift/100), rounded to 2 decimals; with
\* capacity 1.0 and 0 % growth and uplift it equals the base up to rounding.
AdjustmentScalesEveryBand ==
    fc_adj # NoCall =>
        /\ Len(fc_adj.table) = Len(fc.table)
        /\ \A k \in DOMAIN fc.table :
            LET a == fc_adj.table[k]
                b == fc.table[k]
            IN  /\ a.step = b.step
                /\ IsScaledAndRounded(a.mean, b.mean, capacity_mult, scope_growth, defect_uplift)
                /\ IsScaledAndRounded(a.p10, b.p10, capacity_mult, scope_growth, defect_uplift)
                /\ IsScaledAndRounded(a.p50, b.p50, capacity_mult, scope_growth, defect_uplift)
                /\ IsScaledAndRounded(a.p90, b.p90, capacity_mult, scope_growth, defect_uplift)
                /\ (capacity_mult = 100 /\ scope_growth = 0 /\ defect_uplift = 0)
                    => /\ EqualUpToRounding(a.mean, b.mean)
                       /\ EqualUpToRounding(a.p10, b.p10)
                       /\ EqualUpToRounding(a.p50, b.p50)
                       /\ EqualUpToRounding(a.p90, b.p90)

\* C11 witness: a forecast of three steps adjusted with growth and uplift, its
\* first p50 of 4 becoming 4 * 0.95 / 1.07 / 1.3 = 2.73
AdjustmentWitness ==
    /\ fc_adj # NoCall
    /\ Len(fc_adj.table) = 3
    /\ capacity_mult = 95 /\ scope_growth = 7 /\ defect_uplift = 30
    /\ IsValue(fc.table[1].p50, 4)
    /\ fc_adj.table[1].p50 = Q(273, 100)

(***************************************************************************)
(* Properties of validate_and_normalize.                                   *)
(***************************************************************************)
Called == norm.status # "none"

\* the required columns the raw table lacks
MissingColumns == REQUIRED_COLS \ raw.columns

\* the fields that must never be null
Identifiers == {"issue_id", "sprint_id", "status"}

\* the identifier columns of the raw table that hold a null
NullIdentifiers ==
    {c \in Identifiers \cap raw.columns :
        \E k \in DOMAIN raw.rows : isna(raw.rows[k][c])}

Listed(p) == \E i \in DOMAIN norm.problems : norm.problems[i] = p

\* C12: when the raw table lacks a required column or holds a null in
\* issue_id, sprint_id or status, the call raises one error whose message
\* lists all the missing columns and each identifier that holds a null, and
\* nothing else, and no table is returned.
StructuralErrorListsEveryProblem ==
    (Called /\ (MissingColumns # {} \/ NullIdentifiers # {})) =>
        /\ norm.status = "ValueError"
        /\ norm.table = NoTable
        /\ norm.errs = <<>>
        /\ MissingColumns # {} => Listed(Problem("Missing columns", MissingColumns))
        /\ \A c \in NullIdentifiers : Listed(Problem("Null values found", {c}))
        /\ Len(norm.problems) =
               Cardinality(NullIdentifiers) + (IF MissingColumns # {} THEN 1 ELSE 0)

\* two required columns are missing and two identifiers hold a null: the
\* error lists three problems
StructuralErrorWitness ==
    /\ norm.status = "ValueError"
    /\ Cardinality(MissingColumns) = 2
    /\ NullIdentifiers = {"issue_id", "status"}
    /\ Len(norm.problems) = 3

\* C13: a returned table has the columns issue_id, sprint_id and status and
\* no null in any of them, and a raw table with a null in one of them in any
\* row is not returned.
ReturnedTableHasIdentifiers ==
    /\ norm.status = "ok" =>
          \A c \in Identifiers :
              /\ c \in norm.table.columns
              /\ \A k \in DOMAIN norm.table.rows : ~isna(norm.table.rows[k][c])
    /\ (Called /\ NullIdentifiers # {}) => norm.status = "ValueError"

\* a table of two rows is returned without row validation, its status
\* values normalized
ReturnedTableWitness ==
    /\ norm.status = "ok"
    /\ ~validate_rows
    /\ Len(norm.table.rows) = 2
    /\ \A k \in 1..2 : norm.table.rows[k]["status"] = Str(<<"D", "o", "n", "e">>)

\* a row of the table t has a story_points value below zero
HasNegativePoints(t) ==
    /\ "story_points" \in t.columns
    /\ \E k \in DOMAIN t.rows :
          LET c == to_numeric(t.rows[k]["story_points"])
          IN  c.tag = "num" /\ Value(c) < 0

\* every story_points value of the table t is absent or at least zero
PointsSound(t) ==
    \A k \in DOMAIN t.rows :
        LET c == t.rows[k]["story_points"]
        IN  isna(c) \/ (c.tag = "num" /\ Value(c) >= 0)

\* C14 as stated: a raw table with a row of story_points below zero is
\* always rejected, and every returned table has story_points absent or at
\* least zero.
NegativePointsAlwaysFail ==
    /\ (Called /\ HasNegativePoints(raw)) => norm.status = "ValueError"
    /\ norm.status = "ok" => PointsSound(norm.table)

\* C14 amended: when the call asks for row validation (validate_rows, the
\* default), a raw table with a row of story_points below zero is rejected,
\* and every table it returns has story_points absent or at least zero.
NegativePointsFailRowValidation ==
    validate_rows =>
        /\ (Called /\ HasNegativePoints(raw)) => norm.status = "ValueError"
        /\ norm.status = "ok" => PointsSound(norm.table)

\* a table without structural problems is rejected by row validation, for
\* the story_points of its second row alone
NegativePointsWitness ==
    /\ validate_rows
    /\ norm.status = "ValueError"
    /\ HasNegativePoints(raw)
    /\ norm.errs = <<[kind |-> "row", row |-> 1, fields |-> {"story_points"}]>>

\* the optional fields C15 lists
ListedOptionals ==
    {"story_points", "assignee", "reporter", "updated", "sprint_name",
     "parent_id", "labels", "priority"}

\* the listed optional fields of row k of the raw table are all missing,
\* and the row is sound otherwise
AllOptionalsMissing(k) ==
    /\ \A c \in ListedOptionals \cap raw.columns : isna(raw.rows[k][c])
    /\ MissingColumns = {}
    /\ \A c \in Identifiers : ~isna(raw.rows[k][c])
    /\ to_datetime(raw.rows[k]["created"]).tag = "time"

\* C15: a table whose rows have all their listed optional fields missing
\* passes row validation, and each missing value of a listed optional field
\* is None in the returned table.
MissingOptionalsBecomeNone ==
    /\ (/\ Called
        /\ validate_rows
        /\ raw.rows # <<>>
        /\ \A k \in DOMAIN raw.rows : AllOptionalsMissing(k))
          => norm.status = "ok"
    /\ norm.status = "ok" =>
          \A k \in DOMAIN norm.table.rows :
              \A c \in ListedOptionals \cap norm.table.columns :
                  isna(norm.table.rows[k][c]) => norm.table.rows[k][c] = PyNone

\* the text of the cell c is not a value of its column col
IsUnparseable(col, c) ==
    /\ c.tag = "str"
    /\ ~IsDigits(c.v)
    /\ col \in NUM_COLS => ~(Len(c.v) > 1 /\ c.v[1] = "-" /\ IsDigits(Tail(c.v)))

\* the table t with every unparseable cell of the columns cs replaced by a
\* text that parses
Reparsed(t, cs) ==
    [columns |-> t.columns,
     rows |-> [k \in DOMAIN t.rows |->
                 [c \in t.columns |->
                    IF c \in cs /\ IsUnparseable(c, t.rows[k][c])
                    THEN Str(<<"1">>) ELSE t.rows[k][c]]]]

\* with unparseable values only in the columns cs, the call fails only if
\* it fails as well once those values parse, and a returned table holds a
\* missing value wherever the raw one held an unparseable value
CoercionNeverFails(cs) ==
    /\ norm.status = "ValueError" =>
          validate_and_normalize(Reparsed(raw, cs), validate_rows, FALSE).status
              = "ValueError"
    /\ norm.status = "ok" =>
          \A k \in DOMAIN raw.rows :
              \A c \in raw.columns \cap (DATE_COLS \cup NUM_COLS) :
                  IsUnparseable(c, raw.rows[k][c]) => isna(norm.table.rows[k][c])

\* C16 as stated: no call fails because a value of a date column or of
\* story_points cannot be parsed; the value is missing in the returned table.
UnparseableNeverFails == CoercionNeverFails(DATE_COLS \cup NUM_COLS)

\* the columns whose missing values row validation accepts
OptionalCoerced == {"updated", "resolved", "story_points"}

\* C16 amended: no call fails because a value of updated, resolved or
\* story_points cannot be parsed, and without row validation none fails for
\* a value of created, sprint_start or sprint_end either; an unparseable
\* value of any of these columns is missing in the returned table.
UnparseableOptionalNeverFails ==
    CoercionNeverFails(IF validate_rows THEN OptionalCoerced
                       ELSE DATE_COLS \cup NUM_COLS)

\* a table is returned under row validation whose raw row had text that
\* parses neither as updated nor as story_points
UnparseableWitness ==
    /\ norm.status = "ok"
    /\ validate_rows
    /\ Len(raw.rows) = 2
    /\ raw.columns = Headers
    /\ raw.rows[2]["updated"] = Unparseable
    /\ raw.rows[2]["story_points"] = Unparseable
    /\ norm.table.rows[2]["updated"] = PdNaT

(***************************************************************************)
(* Properties of calc_cycle_time.                                          *)
(***************************************************************************)
\* the baseline a row has when each row falls back to created by itself
RowBaseline(r) ==
    IF HasColumn(df, "in_progress_start") /\ notna(r.in_progress_start)
    THEN r.in_progress_start ELSE r.created

\* the baseline a row has when the dataset decides: in_progress_start if
\* the dataset has that column, created otherwise
ColumnBaseline(r) ==
    IF HasColumn(df, "in_progress_start") THEN r.in_progress_start ELSE r.created

Baseline(r, per_row) == IF per_row THEN RowBaseline(r) ELSE ColumnBaseline(r)

\* q, in days, is the median of the durations ticks
IsMedianDays(q, ticks) ==
    LET n == Len(ticks)
        lo == KthSmallest(ticks, (n + 1) \div 2)
        hi == KthSmallest(ticks, (n \div 2) + 1)
    IN  q.den > 0 /\ q.num * 2 * TicksPerDay = (lo + hi) * q.den

\* the rows of sprint s resolved within the sprint window that have a baseline
Timed(s, per_row) ==
    SelectSeq(df, LAMBDA r : /\ Qualifies(r)
                             /\ r.sprint_id = s
                             /\ notna(Baseline(r, per_row)))

\* the result has a row exactly for the sprints with a timed row, holding
\* the median of resolved - baseline in days, which is positive when every
\* baseline precedes its resolution
CycleTimeIsMedianOver(per_row) ==
    op = "calc_cycle_time" =>
        \A s \in SprintIdSet :
            LET rows == Timed(s, per_row)
                ticks == [i \in DOMAIN rows |->
                             rows[i].resolved - Baseline(rows[i], per_row)]
            IN  IF rows = <<>>
                THEN \A k \in DOMAIN out : out[k].sprint_id # s
                ELSE \E k \in DOMAIN out :
                        /\ out[k].sprint_id = s
                        /\ IsMedianDays(out[k].cycle_median_days, ticks)
                        /\ (\A i \in DOMAIN ticks : ticks[i] > 0)
                               => out[k].cycle_median_days.num > 0

SummaryLabels ==
    {"Velocity (SP)", "Throughput (issues)", "Carryover rate",
     "Cycle time (days)", "Defect ratio"}

\* C17: the keys of the mapping compute_summary returns are exactly the five
\* labels, and each is mapped to a record of exactly value and delta.
SummaryKeysAreLabels ==
    op = "compute_summary" =>
        /\ DOMAIN out = SummaryLabels
        /\ \A k \in DOMAIN out : DOMAIN out[k] = {"value", "delta"}

\* the rows of the metric table m as [sprint_id, value], value a fraction
AsFractions(m, col, whole) ==
    [k \in DOMAIN m |->
        [sprint_id |-> m[k].sprint_id,
         value |-> IF whole THEN Q(m[k][col], 1) ELSE m[k][col]]]

\* the five per-sprint tables of the dataset
MetricTables ==
    [velocity_sp |->
         AsFractions(calc_velocity(df), "velocity_sp", TRUE),
     throughput_issues |->
         AsFractions(calc_throughput(df), "throughput_issues", TRUE),
     carryover_rate |->
         AsFractions(calc_carryover_rate(df), "carryover_rate", FALSE),
     cycle_median_days |->
         AsFractions(calc_cycle_time(df), "cycle_median_days", FALSE),
     defect_ratio |->
         AsFractions(calc_defect_ratio(df), "defect_ratio", FALSE)]

\* the sprint of the set ss that sorts after all the others of ss
Last(ss) == CHOOSE s \in ss : \A t \in ss \ {s} : SortsBefore(df, t, s)

\* the value the table m holds for sprint s
ValueOf(m, s) == m[CHOOSE k \in DOMAIN m : m[k].sprint_id = s].value

HasRow(m, s) == \E k \in DOMAIN m : m[k].sprint_id = s

\* the fraction got, of n-ths, is the fraction exact times n rounded
IsRounded(got, exact, n) ==
    /\ got.den = n
    /\ 2 * Abs(got.num * exact.den - n * exact.num) <= exact.den

\* the exact percent change from before to latest, before positive
Percent(latest, before) ==
    Q(100 * (latest.num * before.den - before.num * latest.den),
      latest.den * before.num)

Exceeds(a, b) == a.num * b.den > b.num * a.den

\* the card s of the summary shows the value latest and its change from
\* the value before; has_before tells whether there is a value before
Shows(s, latest, has_before, before) ==
    /\ IsRounded(s.value, latest, 100)
    /\ (~has_before \/ before.num = 0) => s.delta.num = 0
    /\ (has_before /\ before.num > 0) =>
          /\ IsRounded(s.delta, Percent(latest, before), 10)
          /\ s.delta.num > 0 => Exceeds(latest, before)
          /\ Exceeds(latest, before) => s.delta.num >= 0

\* as Shows, with the sign of delta as C18 states it
ShowsExactSign(s, latest, has_before, before) ==
    /\ IsRounded(s.value, latest, 100)
    /\ (~has_before \/ before.num = 0) => s.delta.num = 0
    /\ (has_before /\ before.num > 0) =>
          (s.delta.num > 0 <=> Exceeds(latest, before))

\* C18 as stated: for each metric, value is the metric of the latest sprint
\* of the dataset in the order of earliest sprint_start, delta the percent
\* change against the sprint just before it in that order, 0 without such a
\* sprint or when its value is 0, and positive exactly when the latest value
\* exceeds a positive previous value.  A sprint without a row in the metric's
\* table is read as having the value 0.
SummaryShowsLatestSprint ==
    (op = "compute_summary" /\ GroupKeys(df) # <<>>) =>
        \A key \in DOMAIN out :
            LET m == MetricTables[key]
                sprints == Range(GroupKeys(df))
                latest == Last(sprints)
                rest == sprints \ {latest}
            IN  IF ~HasRow(m, latest) THEN out[key].value.num = 0
                ELSE ShowsExactSign(out[key], ValueOf(m, latest),
                       rest # {} /\ HasRow(m, Last(rest)),
                       IF rest # {} /\ HasRow(m, Last(rest))
                       THEN ValueOf(m, Last(rest)) ELSE Q(0, 1))

\* C18 amended: for each metric, value is the last value of the metric's own
\* per-sprint table in the order of earliest sprint_start (sprints without
\* a sprint_start last, equals in lexical order), rounded to hundredths, and
\* 0 for an empty table; delta is the percent change against the row before
\* it in that table rounded to tenths, 0 without such a row or when its value
\* is 0; for a positive previous value delta is positive only if the latest
\* value exceeds it and is not negative if it does.
SummaryShowsLastMetricRow ==
    op = "compute_summary" =>
        \A key \in DOMAIN out :
            LET m == MetricTables[key]
                sprints == {m[k].sprint_id : k \in DOMAIN m}
                latest == Last(sprints)
                rest == sprints \ {latest}
            IN  IF sprints = {}
                THEN out[key].value.num = 0 /\ out[key].delta.num = 0
                ELSE Shows(out[key], ValueOf(m, latest), rest # {},
                           IF rest # {} THEN ValueOf(m, Last(rest)) ELSE Q(0, 1))

\* S2 starts before S1: the velocity card shows the 2001 points of S1 and
\* a rise against the 2 points of S2
SummaryWitness ==
    /\ op = "compute_summary"
    /\ MinStart(df, "S2") = 1
    /\ MinStart(df, "S1") = 2
    /\ out.velocity_sp.value = Q(200100, 100)
    /\ out.velocity_sp.delta.num > 0

Sprints(t) == {t[k].sprint_id : k \in DOMAIN t}

\* the sprints that have a qualifying row
QualifyingSprints == {s \in SprintIdSet : QualifyingIn(s) # {}}

\* C21: the four metrics select rows by the one qualifying predicate:
\* calc_throughput and calc_defect_ratio list exactly the sprints that have a
\* qualifying row, the denominator of defect_ratio is the throughput, and
\* calc_velocity and calc_cycle_time list only sprints of that set.
KpisSelectByOnePredicate ==
    op \in Pages =>
        /\ Sprints(out.thr) = QualifyingSprints
        /\ Sprints(out.dr) = QualifyingSprints
        /\ \A s \in QualifyingSprints :
              RowOf(out.dr, s).defect_ratio.den = RowOf(out.thr, s).throughput_issues
        /\ Sprints(out.vel) \subseteq QualifyingSprints
        /\ Sprints(out.cyc) \subseteq QualifyingSprints

\* two sprints with a qualifying row each, one whose row has no points and
\* so no velocity, the other whose row has no created and so no cycle time
KpisSelectWitness ==
    /\ op \in Pages
    /\ QualifyingSprints = SprintIdSet
    /\ Sprints(out.thr) = SprintIdSet
    /\ Sprints(out.vel) = {"S1"}
    /\ Sprints(out.cyc) = {"S2"}

\* C22: calc_throughput counts distinct issues: the throughput of a sprint
\* is the number of distinct issue_ids among its qualifying rows, an issue
\* with several qualifying rows in the sprint being counted once.
ThroughputCountsDistinctIssues ==
    op = "calc_throughput" =>
        \A s \in SprintIdSet :
            QualifyingIn(s) # {} =>
                \E k \in DOMAIN out :
                    /\ out[k].sprint_id = s
                    /\ out[k].throughput_issues =
                           Cardinality({df[i].issue_id : i \in QualifyingIn(s)})

(***************************************************************************)
(* Properties of the row validation of validate_and_normalize.             *)
(***************************************************************************)
\* row k of the raw table breaks a rule of the row model: story_points
\* below zero, or a required date that is no date
RowInvalid(k) ==
    \/ LET c == raw.rows[k]["story_points"]
       IN  c.tag = "str" /\ Len(c.v) > 1 /\ c.v[1] = "-" /\ IsDigits(Tail(c.v))
    \/ \E col \in {"created", "sprint_start", "sprint_end"} :
          LET c == raw.rows[k][col]
          IN  c.tag # "time" /\ ~(c.tag = "str" /\ IsDigits(c.v))

InvalidRowSet == {k \in DOMAIN raw.rows : RowInvalid(k)}

\* the k-th invalid row of the raw table, in row order
NthInvalid(k) ==
    CHOOSE i \in InvalidRowSet :
        Cardinality({j \in InvalidRowSet : j < i}) = k - 1

\* the itemised rows of the error, in the order of the message
ItemisedRows == SelectSeq(norm.errs, LAMBDA e : e.kind = "row")

HasMarker == \E i \in DOMAIN norm.errs : norm.errs[i] = MoreRowsInvalid

\* C23: strict row validation itemises the invalid rows in row order, at
\* most 5 of them, and adds the marker of truncation exactly when invalid
\* rows are left unlisted; the call fails when at least one row is invalid
\* and returns the table when none is.
RowErrorsTruncateWhenMoreInvalid ==
    (Called /\ validate_rows /\ raw.columns = Headers) =>
        LET n == Cardinality(InvalidRowSet)
            listed == ItemisedRows
        IN  /\ Len(listed) = IF n < 5 THEN n ELSE 5
            /\ \A i \in DOMAIN listed : listed[i].row = NthInvalid(i) - 1
            /\ HasMarker <=> n > 5
            /\ (n >= 1) <=> norm.status = "ValueError"
            /\ (n = 0) <=> norm.status = "ok"

(***************************************************************************)
(* Properties of the KPI table of the pages.                               *)
(***************************************************************************)
\* the sprints that appear in any of the five metric tables
MetricSprints ==
    Sprints(out.vel) \cup Sprints(out.thr) \cup Sprints(out.car)
        \cup Sprints(out.cyc) \cup Sprints(out.dr)

\* the cell of the KPI row r for a metric is the metric's value for the
\* sprint, or 0 or a missing value when the metric table has no such row
CellFilled(r, t, col) ==
    IF HasSprint(t, r.sprint_id) THEN r[col] = RowOf(t, r.sprint_id)[col]
    ELSE IF col \in {"velocity_sp", "throughput_issues"}
         THEN r[col] \in {0, NaN}
         ELSE r[col] \in {Q(0, 1), NaNQ}

\* C24: the KPI table has a row for every sprint of any metric table, each
\* metric the sprint lacks filled with 0 or a missing value.
KpiTableKeepsEverySprint ==
    op \in Pages =>
        /\ Sprints(out.kpi) = MetricSprints
        /\ \A k \in DOMAIN out.kpi :
              /\ CellFilled(out.kpi[k], out.vel, "velocity_sp")
              /\ CellFilled(out.kpi[k], out.thr, "throughput_issues")
              /\ CellFilled(out.kpi[k], out.car, "carryover_rate")
              /\ CellFilled(out.kpi[k], out.cyc, "cycle_median_days")
              /\ CellFilled(out.kpi[k], out.dr, "defect_ratio")

(***************************************************************************)
(* Properties of velocity_insights.                                        *)
(***************************************************************************)
\* the velocity of sprint s, and the sprints that have one, in order
VelocityOf(s) == PointsOf(PointedIn(s))

History ==
    LET with == SelectSeq(SprintIds, LAMBDA s : PointedIn(s) # {})
    IN  [k \in DOMAIN with |-> VelocityOf(with[k])]

\* C25: with a velocity history of fewer than 3 sprints the commentary is
\* the low-confidence warning alone, whatever the forecast table holds.
ShortHistoryOnlyWarns ==
    (op = "velocity_insights" /\ Len(History) < 3) => out = <<LimitedHistory>>

\* a history of two sprints and a forecast with a band wide enough for the
\* high-uncertainty message
ShortHistoryWitness ==
    /\ op = "velocity_insights"
    /\ Len(History) = 2
    /\ Len(fc.table) = 1
    /\ HasColumn(fc.table, "p90")
    /\ fc.table[1].p90.num - fc.table[1].p10.num = 600
    /\ out = <<LimitedHistory>>

\* the trend message of the history h: flat when the mean step, which is
\* (last - first) / (n - 1), is within 0.2 of zero, else by its sign
ExpectedTrend(h) ==
    LET n == Len(h)
        rise == h[n] - h[1]
    IN  IF 5 * Abs(rise) < n - 1 THEN TrendFlat
        ELSE IF rise > 0 THEN TrendUp ELSE TrendDown

SumOfSquares(h) == SumSeq([i \in DOMAIN h |-> h[i] * h[i]])

\* the coefficient of variation of h is below pct percent: with S the sum and
\* D = n * sum of squares - S^2, the sample variance is D / (n (n - 1)) and
\* the squared mean S^2 / n^2; never when the mean is 0
CvBelowPercent(h, pct) ==
    LET n == Len(h)
        S == SumSeq(h)
        D == n * SumOfSquares(h) - S * S
    IN  S > 0 /\ 10000 * n * D < pct * pct * (n - 1) * S * S

ExpectedVariability(h) ==
    IF CvBelowPercent(h, 10) THEN VeryStable
    ELSE IF CvBelowPercent(h, 25) THEN ModerateVariability
    ELSE Volatile

\* the forecast table has the band columns and a row that holds numbers
HasBand(t) ==
    /\ t # <<>>
    /\ {"p10", "p90"} \subseteq DOMAIN t[1]
    /\ \E k \in DOMAIN t : t[k].p10.den # 0 /\ t[k].p90.den # 0

\* the average of p90 - p10 is below th, the cells being fractions of one
\* denominator
SpreadBelow(t, th) ==
    SumSeq([k \in DOMAIN t |-> t[k].p90.num - t[k].p10.num])
        < th * t[1].p90.den * Len(t)

ExpectedUncertainty(t) ==
    IF SpreadBelow(t, 3) THEN UncertaintyLow
    ELSE IF SpreadBelow(t, 6) THEN UncertaintyModerate
    ELSE UncertaintyHigh

\* C26: with at least 3 history points the commentary is one trend message
\* (flat when |mean step| < 0.2, else up or down by sign), then one
\* variability message (very stable when cv < 0.10, moderate when < 0.25,
\* volatile otherwise and when the mean is 0), then the forecast-uncertainty
\* message (low when the average band is < 3, moderate when < 6, else high)
\* if the forecast has p10 and p90 and a row of numbers, and nothing else.
LongHistoryCommentary ==
    (op = "velocity_insights" /\ Len(History) >= 3) =>
        /\ Len(out) = IF HasBand(fc.table) THEN 3 ELSE 2
        /\ out[1] = ExpectedTrend(History)
        /\ out[2] = ExpectedVariability(History)
        /\ HasBand(fc.table) => out[3] = ExpectedUncertainty(fc.table)

\* three sprints of velocity 0: a flat trend, a volatile history for its
\* mean of 0, and a band of exactly 3 wide, which is moderate
LongHistoryWitness ==
    /\ op = "velocity_insights"
    /\ History = <<0, 0, 0>>
    /\ Len(fc.table) = 1
    /\ HasBand(fc.table)
    /\ fc.table[1].p90.num - fc.table[1].p10.num = 300
    /\ out = <<TrendFlat, Volatile, UncertaintyModerate>>

(***************************************************************************)
(* Properties of throughput and carryover taken together.                  *)
(***************************************************************************)
\* the rows of sprint s that are neither completed nor carried over: without
\* a sprint_end, or resolved by sprint_end but before sprint_start or
\* without a sprint_start
SlackIn(s) ==
    {i \in AssignedIn(s) :
        \/ df[i].sprint_end = NaT
        \/ /\ df[i].resolved # NaT
           /\ df[i].resolved <= df[i].sprint_end
           /\ (df[i].sprint_start = NaT \/ df[i].resolved < df[i].sprint_start)}

\* C27: no row is counted both as completed and as carried over: for every
\* sprint, throughput plus the carryover numerator is at most the number of
\* rows assigned to the sprint, and what is left over is the rows resolved
\* before sprint_start or lacking window dates.
CompletedAndCarriedAreDisjoint ==
    op \in Pages =>
        \A s \in SprintIdSet :
            AssignedIn(s) # {} =>
                LET carry == RowOf(out.car, s).carryover_rate
                    done == IF HasSprint(out.thr, s)
                            THEN RowOf(out.thr, s).throughput_issues ELSE 0
                IN  /\ carry.den = Cardinality(AssignedIn(s))
                    /\ done + carry.num <= carry.den
                    /\ carry.den - done - carry.num = Cardinality(SlackIn(s))

\* a sprint of two rows, one resolved exactly at sprint_end and counted as
\* completed, one resolved before sprint_start and counted as neither
CompletedAndCarriedWitness ==
    /\ op \in Pages
    /\ Len(df) = 2
    /\ df[1].sprint_id = "S1" /\ df[1].resolved = df[1].sprint_end
    /\ df[2].sprint_id = "S1" /\ df[2].resolved = 0 /\ df[2].sprint_start = 1
    /\ RowOf(out.thr, "S1").throughput_issues = 1
    /\ RowOf(out.car, "S1").carryover_rate = Q(0, 2)

(***************************************************************************)
(* Properties of the forecast bands.                                       *)
(***************************************************************************)
\* the velocities of the Series that are not missing
HistoryValues == {series[i] : i \in {j \in DOMAIN series : series[j] # NaN}}

MinOf(S) == CHOOSE v \in S : \A w \in S : v <= w
MaxOf(S) == CHOOSE v \in S : \A w \in S : w <= v

\* lo <= q <= hi for a fraction q, and a <= b for fractions a and b
Within(q, lo, hi) == q.den > 0 /\ lo * q.den <= q.num /\ q.num <= hi * q.den
AtMost(a, b) == a.num * b.den <= b.num * a.den

\* C28: for a history that is not empty, horizon >= 1 and draws >= 1 the
\* forecast has exactly horizon rows, every row has
\* min(history) <= p10 <= p50 <= p90 <= max(history) and
\* min(history) <= mean <= max(history), and, every sampled value being an
\* element of the history, a forecast of a single draw holds a value of the
\* history in every cell.
ForecastStaysWithinHistory ==
    (fc # NoCall /\ HistoryValues # {} /\ horizon >= 1 /\ draws >= 1) =>
        /\ fc.status = "ok"
        /\ Len(fc.table) = horizon
        /\ \A k \in DOMAIN fc.table :
              LET r == fc.table[k]
                  lo == MinOf(HistoryValues)
                  hi == MaxOf(HistoryValues)
              IN  /\ r.step = k
                  /\ Within(r.p10, lo, hi)
                  /\ Within(r.p90, lo, hi)
                  /\ Within(r.mean, lo, hi)
                  /\ AtMost(r.p10, r.p50)
                  /\ AtMost(r.p50, r.p90)
                  /\ draws = 1 =>
                        \E v \in HistoryValues :
                            /\ IsValue(r.mean, v) /\ IsValue(r.p10, v)
                            /\ IsValue(r.p50, v) /\ IsValue(r.p90, v)

\* two draws of two steps from the history 3, 5, whose first step drew
\* both values: p10 = 3.2 < p50 = 4 < p90 = 4.8
ForecastBandsWitness ==
    /\ fc.status = "ok"
    /\ series = <<3, 5>>
    /\ horizon = 2
    /\ draws = 2
    /\ fc.table[1].p10 = Q(320, 100)
    /\ fc.table[1].p50 = Q(400, 100)
    /\ fc.table[1].p90 = Q(480, 100)
    /\ fc.table[1].mean = Q(8, 2)

(***************************************************************************)
(* Properties of the Overview page.                                        *)
(***************************************************************************)
\* the mappings a user of the model can come to confirm for the file up
ConfirmableMappings(up) ==
    {[infer_mapping(up) EXCEPT !["issue_id"] = a, !["story_points"] = b] :
        a \in {Unmapped} \cup (up.columns \cap {"issue_id", "Key", "ref",
                                                "sprint_id"}),
        b \in {Unmapped} \cup (up.columns \cap {"story_points", "ref",
                                                "sprint_id"})}

\* the tables the page hands to validate_and_normalize
LoadInputs ==
    {load_sprint_csv(SampleCsv).table} \cup Uploads \cup
    UNION {{apply_mapping(up, m).table : m \in ConfirmableMappings(up)} :
           up \in Uploads}

\* the tables validate_and_normalize returned for them
ValidatedTables ==
    {r.table : r \in {x \in {validate_and_normalize(t, TRUE, keeps_nan) :
                                t \in LoadInputs, keeps_nan \in BOOLEAN} :
                        x.status = "ok"}}

Rendered == "validated_df" \in DOMAIN session_state

\* a run of Use uploaded or Confirm mapping whose try block raised
LoadFailed ==
    /\ op' \in {"use_uploaded", "confirm_mapping"}
    /\ out'.status # "ok"

\* a run of a load whose try block passed
LoadPassed ==
    /\ op' \in {"open", "use_uploaded", "use_sample", "confirm_mapping"}
    /\ out'.status = "ok"

\* C29: after any sequence of Overview-page actions validated_df is a table
\* validate_and_normalize returned; a run of Use uploaded or Confirm mapping
\* that fails leaves validated_df and df_current as they were and keeps the
\* text of the failure in upload_error_log; a run of a load that passes
\* keeps the validated table and sets upload_error_log to None
OverviewKeepsValidatedTable ==
    /\ [](Rendered => /\ session_state["validated_df"] \in ValidatedTables
                      /\ session_state["df_current"]
                            = session_state["validated_df"])
    /\ [][/\ LoadFailed =>
                /\ session_state'["validated_df"]
                      = session_state["validated_df"]
                /\ session_state'["df_current"] = session_state["df_current"]
                /\ session_state'["upload_error_log"] = out'.text
                /\ out'.text.problems # <<>> \/ out'.text.errs # <<>>
          /\ LoadPassed =>
                /\ session_state'["validated_df"] = out'.table
                /\ session_state'["upload_error_log"] = PyNone]_vars

\* an upload failed, its mapping was confirmed and validated, a later
\* upload failed: the mapped table is still in use and the error is kept
OverviewWitness ==
    /\ Rendered
    /\ op = "use_uploaded"
    /\ out.status = "ValueError"
    /\ session_state["source_label"].source = "mapped upload"
    /\ session_state["upload_error_log"] # PyNone
    /\ session_state["validated_df"] # read_and_validate(FALSE).table

(***************************************************************************)
(* Properties of the saved scenarios of the Trends page.                   *)
(***************************************************************************)
SavedScenarios == session_state["scenarios"]

SavedSummaries == session_state["scenario_summaries"]

\* C30: after any sequence of Save scenario and Clear all, scenarios and
\* scenario_summaries hold the same names, and the summary under a name
\* belongs to the sliders under that name; a save writes both entries of
\* the stripped name, a known name included, and leaves the other names
\* alone; Clear all leaves both empty
ScenariosAndSummariesAgree ==
    /\ []("scenarios" \in DOMAIN session_state =>
            /\ "scenario_summaries" \in DOMAIN session_state
            /\ DOMAIN SavedScenarios = DOMAIN SavedSummaries
            /\ \A n \in DOMAIN SavedScenarios :
                  SavedSummaries[n].effective_multiplier
                      = EffectiveMultiplier(SavedScenarios[n].capacity_mult,
                                            SavedScenarios[n].scope_growth,
                                            SavedScenarios[n].defect_uplift))
    /\ [][/\ op' = "save_scenario" =>
                LET name == lstrip(rstrip(out'.typed))
                IN  /\ DOMAIN SavedScenarios' = DOMAIN SavedScenarios \cup {name}
                    /\ DOMAIN SavedSummaries' = DOMAIN SavedScenarios'
                    /\ SavedScenarios'[name] =
                          [capacity_mult |-> capacity_mult,
                           scope_growth |-> scope_growth,
                           defect_uplift |-> defect_uplift]
                    /\ SavedSummaries'[name] =
                          scenario_summary(fc'.table, fc_adj'.table,
                                           capacity_mult, scope_growth,
                                           defect_uplift)
                    /\ \A n \in DOMAIN SavedScenarios \ {name} :
                          /\ SavedScenarios'[n] = SavedScenarios[n]
                          /\ SavedSummaries'[n] = SavedSummaries[n]
          /\ op' = "clear_all" =>
                /\ SavedScenarios' = EmptyDict
                /\ SavedSummaries' = EmptyDict]_vars

\* two names are kept and the one typed with a blank before it has just
\* been saved again, with other sliders than the other name has
ScenariosWitness ==
    /\ op = "save_scenario"
    /\ out.typed = <<" ", "a">>
    /\ out.known
    /\ "scenarios" \in DOMAIN session_state
    /\ DOMAIN SavedScenarios = {<<"a">>, <<"b">>}
    /\ SavedScenarios[<<"a">>].capacity_mult = 150
    /\ SavedScenarios[<<"b">>].capacity_mult = 95
    /\ SavedSummaries[<<"a">>].base_p50 # SavedSummaries[<<"b">>].base_p50

====
